---- MODULE Spec2Model ----
(***************************************************************************)
(* Model of the Next.js / Couchbase travel-sample REST API: the v1 CRUD    *)
(* route handlers (airline, airport, route), the list / search / filter    *)
(* handlers, the zod schemas they validate with, and the cached store      *)
(* connection of lib/couchbase-connection.                                 *)
(***************************************************************************)
EXTENDS Integers, Sequences, FiniteSets, TLC

(***************************************************************************)
(* JSON values.  A value is tagged with its JSON type; an object is a      *)
(* function from the keys it has to values, an array a sequence.           *)
(***************************************************************************)
Str(s) == [t |-> "string", v |-> s]
Num(n) == [t |-> "number", v |-> n]
Obj(f) == [t |-> "object", v |-> f]
Arr(q) == [t |-> "array", v |-> q]

EmptyObj == [k \in {} |-> Str("")]

\* f with key k removed / with the keys of g added where f has none
DropKeys(f, ks) == [k \in (DOMAIN f) \ ks |-> f[k]]
WithKey(f, k, val) == [x \in (DOMAIN f) \cup {k} |-> IF x = k THEN val ELSE f[x]]

(***************************************************************************)
(* zod schemas.  A schema is string, number, an object with an ordered     *)
(* shape of fields (each possibly .optional()), or an array of a schema.   *)
(***************************************************************************)
ZString == [t |-> "string"]
ZNumber == [t |-> "number"]
ZObject(shape) == [t |-> "object", shape |-> shape]
ZArray(elem) == [t |-> "array", elem |-> elem]
Field(name, schema) == [name |-> name, schema |-> schema, optional |-> FALSE]
Optional(name, schema) == [name |-> name, schema |-> schema, optional |-> TRUE]

AirlineSchema ==
    ZObject(<< Optional("id", ZNumber),
               Optional("type", ZString),
               Field("callsign", ZString),
               Field("country", ZString),
               Field("iata", ZString),
               Field("icao", ZString),
               Field("name", ZString) >>)

\* a geo schema that lets alt be left out
GeoSchemaAltOptional ==
    ZObject(<< Optional("alt", ZNumber),
               Field("lat", ZNumber),
               Field("lon", ZNumber) >>)

GeoSchema ==
    ZObject(<< Field("alt", ZNumber),
               Field("lat", ZNumber),
               Field("lon", ZNumber) >>)

AirportSchema ==
    ZObject(<< Field("airportname", ZString),
               Field("city", ZString),
               Field("country", ZString),
               Field("faa", ZString),
               Field("icao", ZString),
               Field("tz", ZString),
               Field("geo", GeoSchema) >>)

ScheduleSchema ==
    ZObject(<< Field("day", ZNumber),
               Field("flight", ZString),
               Field("utc", ZString) >>)

RouteSchema ==
    ZObject(<< Field("airline", ZString),
               Field("airlineid", ZString),
               Field("sourceairport", ZString),
               Field("destinationairport", ZString),
               Field("stops", ZNumber),
               Field("equipment", ZString),
               Field("schedule", ZArray(ScheduleSchema)),
               Field("distance", ZNumber) >>)

Resources == {"airline", "airport", "route"}

SchemaOf(res) ==
    CASE res = "airline" -> AirlineSchema
      [] res = "airport" -> AirportSchema
      [] res = "route" -> RouteSchema

(***************************************************************************)
(* schema.parse(value): the issues, in the order zod reports them (shape   *)
(* order, depth first), each with the path of the offending field; and     *)
(* the parsed output, which keeps the declared keys only.                  *)
(***************************************************************************)
Issue(path, received) == [code |-> "invalid_type", path |-> path, received |-> received]

RECURSIVE ZodIssues(_, _, _, _)
RECURSIVE ShapeIssues(_, _, _, _)
RECURSIVE ElemIssues(_, _, _, _)

\* present = FALSE stands for `undefined` (the key is not in the input)
ZodIssues(schema, present, value, path) ==
    IF ~present
    THEN << Issue(path, "undefined") >>
    ELSE IF value.t # schema.t
    THEN << Issue(path, value.t) >>
    ELSE IF schema.t = "object"
    THEN ShapeIssues(schema.shape, 1, value.v, path)
    ELSE IF schema.t = "array"
    THEN ElemIssues(schema.elem, 1, value.v, path)
    ELSE << >>

ShapeIssues(shape, i, obj, path) ==
    IF i > Len(shape)
    THEN << >>
    ELSE LET f == shape[i]
             has == f.name \in DOMAIN obj
             here == IF ~has /\ f.optional
                     THEN << >>
                     ELSE ZodIssues(f.schema, has,
                                    IF has THEN obj[f.name] ELSE Str(""),
                                    Append(path, f.name))
         IN  here \o ShapeIssues(shape, i + 1, obj, path)

ElemIssues(elem, i, arr, path) ==
    IF i > Len(arr)
    THEN << >>
    ELSE ZodIssues(elem, TRUE, arr[i], Append(path, i))
         \o ElemIssues(elem, i + 1, arr, path)

RECURSIVE ZodOutput(_, _)


\* z.object(...).passthrough(): unknown keys are kept
ZodOutputPassthrough(schema, value) == value

\* the output of a successful parse: unknown keys are stripped
ZodOutput(schema, value) ==
    IF schema.t = "object"
    THEN LET shape == schema.shape
             kept == { i \in 1..Len(shape) : shape[i].name \in DOMAIN value.v }
             SchemaAt(k) == (CHOOSE i \in kept : shape[i].name = k)
         IN  Obj([k \in { shape[i].name : i \in kept } |->
                     ZodOutput(shape[SchemaAt(k)].schema, value.v[k])])
    ELSE IF schema.t = "array"
    THEN Arr([i \in 1..Len(value.v) |-> ZodOutput(schema.elem, value.v[i])])
    ELSE value

\* a parse that stops at the first violation
ZodParseFirstIssue(schema, value) ==
    LET issues == ZodIssues(schema, TRUE, value, << >>)
    IN  IF issues = << >>
        THEN [ok |-> TRUE, data |-> ZodOutput(schema, value), issues |-> << >>]
        ELSE [ok |-> FALSE, data |-> Obj(EmptyObj), issues |-> << issues[1] >>]

\* Schema.parse(data): throws ZodError(issues) or returns the output
ZodParse(schema, value) ==
    LET issues == ZodIssues(schema, TRUE, value, << >>)
    IN  IF issues = << >>
        THEN [ok |-> TRUE, data |-> ZodOutput(schema, value), issues |-> << >>]
        ELSE [ok |-> FALSE, data |-> Obj(EmptyObj), issues |-> issues]


(***************************************************************************)
(* Bounds of the model.                                                    *)
(***************************************************************************)
\* calls of couchbase.connect over the life of the process
MaxConnects == 2
\* required fields a client leaves out of an otherwise valid body
MaxMissing == 2

\* the document keys clients address in each collection
Keys == { "k1", "k2" }

(***************************************************************************)
(* Request bodies a client sends.  The string values are key names, so a   *)
(* route's airlineid can name an airline document.                         *)
(***************************************************************************)
RECURSIVE Sample(_, _, _, _)

\* a value that satisfies the schema, built from string s and number n
Sample(schema, s, n, withOptional) ==
    CASE schema.t = "string" -> Str(s)
      [] schema.t = "number" -> Num(n)
      [] schema.t = "array" -> Arr(<< Sample(schema.elem, s, n, withOptional) >>)
      [] schema.t = "object" ->
            LET shape == schema.shape
                used == { i \in 1..Len(shape) : withOptional \/ ~shape[i].optional }
                At(k) == CHOOSE i \in used : shape[i].name = k
            IN  Obj([k \in { shape[i].name : i \in used } |->
                        Sample(shape[At(k)].schema, s, n, withOptional)])

RequiredNames(schema) ==
    LET shape == schema.shape
    IN  SelectSeq([i \in 1..Len(shape) |-> shape[i]], LAMBDA f : ~f.optional)

\* the first m required field names of an object schema
FirstRequired(schema, m) ==
    { RequiredNames(schema)[i].name : i \in 1..m }

WrongType(schema) ==
    IF schema.t = "string" THEN Num(7) ELSE Str("x")

\* the documents used by the repository's tests, reduced to the model's values
PlainBody(res) == Sample(SchemaOf(res), "k1", 1, FALSE)
FullBody(res) ==
    Obj(WithKey(Sample(SchemaOf(res), "k2", 2, TRUE).v, "invalid", Str("data")))

ValidBodies(res) == { PlainBody(res), FullBody(res) }

\* v with a defect one level down: an object loses its first field, an array
\* gets an element that lost its first field
RECURSIVE Damaged(_, _)
Damaged(schema, v) ==
    CASE schema.t = "object" -> Obj(DropKeys(v.v, { schema.shape[1].name }))
      [] schema.t = "array" -> Arr(<< Damaged(schema.elem, v.v[1]) >>)
      [] OTHER -> WrongType(schema)

InvalidBodies(res) ==
    LET schema == SchemaOf(res)
        plain == PlainBody(res).v
        first == RequiredNames(schema)[1]
        last == RequiredNames(schema)[Len(RequiredNames(schema))]
    IN  { Obj(DropKeys(plain, FirstRequired(schema, m))) : m \in 1..MaxMissing }
        \cup { Obj(WithKey(plain, first.name, WrongType(first.schema))),
               Obj(WithKey(plain, last.name, Damaged(last.schema, plain[last.name]))),
               Obj(WithKey(EmptyObj, "invalid", Str("data"))),
               Arr(<< >>) }

Json(value) == [kind |-> "json", value |-> value]
Malformed == [kind |-> "malformed", value |-> Obj(EmptyObj)]
NoBody == [kind |-> "none", value |-> Obj(EmptyObj)]

Bodies ==
    [res \in Resources |->
        { Json(v) : v \in ValidBodies(res) \cup InvalidBodies(res) } \cup { Malformed }]

\* Schema.parse of every body the clients send
Parsed ==
    [res \in Resources |->
        [b \in Bodies[res] \cup { NoBody } |-> ZodParse(SchemaOf(res), b.value)]]


(***************************************************************************)
(* State.                                                                  *)
(***************************************************************************)
VARIABLES
    store,              \* store[c]: collection c, a function from the keys it holds to documents
    cachedDbConnection, \* the module's cached DbConnection (its cluster), 0 for null
    cachedConn,         \* cached.conn: the cached cluster, 0 for null
    connects,           \* couchbase.connect calls made so far; call i yields cluster i
    fts,                \* where insertFTSIndexes, started at module load, stands
    suite,              \* what the clients of this run ask for: a route family of the
                        \* CRUD handlers, or a query string of a list / search /
                        \* filter endpoint
    cur,                \* the request being handled, or the last one answered
    prev,               \* the request answered before cur, when it addressed the same key
    other,              \* a second request in flight, suspended at an await while
                        \* cur runs
    searchIndexes,      \* cluster.searchIndexes(): the search indexes of the store,
                        \* a function from index names to definitions
    again               \* a second invocation of insertFTSIndexes, suspended at an
                        \* await while fts runs

vars ==
    << store, cachedDbConnection, cachedConn, connects, fts, suite, cur, prev, other,
       searchIndexes, again >>

Collections == { "airline", "airport", "route", "hotel" }

NoCall == [method |-> "none", outcome |-> "none"]
NoDoc == [present |-> FALSE, doc |-> Obj(EmptyObj)]
Doc(d) == [present |-> TRUE, doc |-> d]

\* the document collection c holds at key k, if any
Stored(coll, k) == IF k \in DOMAIN coll THEN Doc(coll[k]) ELSE NoDoc

NoSummary ==
    [op |-> "none", status |-> 0, resp |-> << >>, body |-> NoBody,
     data |-> Obj(EmptyObj), before |-> NoDoc, after |-> NoDoc]

NoRequest ==
    [pc |-> "none", op |-> "none", res |-> "none", key |-> "none", body |-> NoBody,
     attempt |-> 0, call |-> NoCall, before |-> NoDoc, after |-> NoDoc,
     status |-> 0, resp |-> << >>]

\* an invocation of insertFTSIndexes that has not begun
NoRun == [pc |-> "none", attempt |-> 0]

(***************************************************************************)
(* The store client (couchbase SDK) as the handlers use it: point          *)
(* operations on one collection.  Each returns the outcome the handler     *)
(* sees, the content read, and the collection afterwards.                  *)
(***************************************************************************)
CollectionGet(coll, k) ==
    IF k \in DOMAIN coll
    THEN [outcome |-> "ok", coll |-> coll]
    ELSE [outcome |-> "DocumentNotFoundError", coll |-> coll]

\* an insert that writes over the document the key holds
CollectionInsertOverwrites(coll, k, d) ==
    [outcome |-> "ok", coll |-> WithKey(coll, k, d)]

CollectionInsert(coll, k, d) ==
    IF k \in DOMAIN coll
    THEN [outcome |-> "DocumentExistsError", coll |-> coll]
    ELSE [outcome |-> "ok", coll |-> WithKey(coll, k, d)]


\* a partial update: the fields the new document lacks survive
CollectionUpsertMerges(coll, k, d) ==
    [outcome |-> "ok",
     coll |-> WithKey(coll, k,
                IF k \in DOMAIN coll
                THEN Obj([f \in (DOMAIN coll[k].v) \cup (DOMAIN d.v) |->
                            IF f \in DOMAIN d.v THEN d.v[f] ELSE coll[k].v[f]])
                ELSE d)]

\* an upsert that leaves the document the key holds in place
CollectionUpsertKeeps(coll, k, d) ==
    [outcome |-> "ok", coll |-> IF k \in DOMAIN coll THEN coll ELSE WithKey(coll, k, d)]

CollectionUpsert(coll, k, d) ==
    [outcome |-> "ok", coll |-> WithKey(coll, k, d)]

\* a remove that empties the collection
CollectionRemoveAll(coll, k) ==
    IF k \in DOMAIN coll
    THEN [outcome |-> "ok", coll |-> DropKeys(coll, DOMAIN coll)]
    ELSE [outcome |-> "DocumentNotFoundError", coll |-> coll]

CollectionRemove(coll, k) ==
    IF k \in DOMAIN coll
    THEN [outcome |-> "ok", coll |-> DropKeys(coll, {k})]
    ELSE [outcome |-> "DocumentNotFoundError", coll |-> coll]

\* a call the store cannot serve (timeout, unreachable node): a generic error
CollectionFailure(coll) == [outcome |-> "Error", coll |-> coll]

CollectionCall(method, coll, k, d) ==
    CASE method = "get" -> CollectionGet(coll, k)
      [] method = "insert" -> CollectionInsert(coll, k, d)
      [] method = "upsert" -> CollectionUpsert(coll, k, d)
      [] method = "remove" -> CollectionRemove(coll, k)

(***************************************************************************)
(* lib/couchbase-connection: getDatabase, connectToDatabase and            *)
(* createCouchbaseCluster.                                                 *)
(***************************************************************************)
\* getDatabase() up to its first suspension: what the caller gets at once
\* ("cached"), what createCouchbaseCluster returns without connecting
\* ("cluster"), or the need to await couchbase.connect ("connect")
GetDatabasePath ==
    IF cachedDbConnection # 0 THEN "cached"
    ELSE IF cachedConn # 0 THEN "cluster"
    ELSE "connect"

\* the assignments of getDatabase() up to its first suspension
GetDatabaseCall ==
    /\ GetDatabasePath = "connect" => connects < MaxConnects
    /\ cachedDbConnection' =
          IF GetDatabasePath = "cluster" THEN cachedConn ELSE cachedDbConnection
    /\ connects' = IF GetDatabasePath = "connect" THEN connects + 1 ELSE connects
    /\ UNCHANGED cachedConn

\* couchbase.connect resolved with cluster c: createCouchbaseCluster caches
\* it and connectToDatabase caches the DbConnection built on it
ConnectResolved(c) ==
    /\ cachedConn' = c
    /\ cachedDbConnection' = c
    /\ UNCHANGED connects


(***************************************************************************)
(* The v1 CRUD route handlers: app/api/v1/{airline,airport,route}/[id].    *)
(* The three files have the same structure and differ in their texts.      *)
(***************************************************************************)
Methods == { "GET", "POST", "PUT", "DELETE" }

Response(status, body) == [status |-> status, body |-> body]

NoError == [name |-> "none", issues |-> << >>]
Thrown(name) == [name |-> name, issues |-> << >>]
ZodError(issues) == [name |-> "ZodError", issues |-> issues]

NotFoundText ==
    [airline |-> "Airline not found", airport |-> "Airport not found",
     route |-> "Route not found"]
ExistsText ==
    [airline |-> "Airline already exists", airport |-> "Airport already exists",
     route |-> "Route already exists"]
FetchFailedText ==
    [airline |-> "An error occurred while fetching airline",
     airport |-> "An error occurred while fetching airport",
     route |-> "An error occurred while fetching route"]
CreateFailedText ==
    [airline |-> "An error occurred while creating airline",
     airport |-> "An error occurred while creating airport",
     route |-> "An error occurred while creating route"]
UpdateFailedText ==
    [airline |-> "An error occurred while updating airline",
     airport |-> "An error occurred while updating airport",
     route |-> "An error occurred while updating route"]
DeleteFailedText ==
    [airline |-> "An error occurred while deleting airline",
     airport |-> "An error occurred while deleting airport",
     route |-> "An error occurred while deleting route"]
DeletedText ==
    [airline |-> "Successfully deleted airline",
     airport |-> "Successfully deleted airport",
     route |-> "Successfully deleted route"]
\* the key of the PUT envelope: { parsedAirlineData }, ...
EnvelopeKey ==
    [airline |-> "parsedAirlineData", airport |-> "parsedAirportData",
     route |-> "parsedRouteData"]

MessageOnly(text) == [message |-> text]
MessageAndError(text) == [message |-> text, error |-> text]

\* a 400 that keeps the violations to itself
InvalidBodyMessageOnly(issues) == [message |-> "Invalid request body"]

InvalidBody(issues) == [message |-> "Invalid request body", error |-> issues]


\* POST written with upsert
HandlerMethodPostUpserts(op) ==
    CASE op = "GET" -> "get"
      [] op = "POST" -> "upsert"
      [] op = "PUT" -> "upsert"
      [] op = "DELETE" -> "remove"

\* PUT written with insert
HandlerMethodPutInserts(op) ==
    CASE op = "GET" -> "get"
      [] op = "POST" -> "insert"
      [] op = "PUT" -> "insert"
      [] op = "DELETE" -> "remove"

\* the collection method each handler calls
HandlerMethod(op) ==
    CASE op = "GET" -> "get"
      [] op = "POST" -> "insert"
      [] op = "PUT" -> "upsert"
      [] op = "DELETE" -> "remove"


\* POST and PUT without Schema.parse
EntryErrorUnparsed(op, res, body) ==
    IF op \in { "POST", "PUT" } /\ body.kind # "json"
    THEN Thrown("SyntaxError")
    ELSE NoError

\* what a handler throws before it asks for the database: req.json() on a
\* body that is no JSON, then Schema.parse
EntryError(op, res, body) ==
    IF op \in { "POST", "PUT" }
    THEN IF body.kind # "json"
         THEN Thrown("SyntaxError")
         ELSE LET parsed == Parsed[res][body]
              IN  IF parsed.ok THEN NoError ELSE ZodError(parsed.issues)
    ELSE NoError

\* the parsed body a POST or PUT hands to the store
ParsedData(op, res, body) ==
    IF op \in { "POST", "PUT" }
    THEN Parsed[res][body].data
    ELSE Obj(EmptyObj)


\* GET without the DocumentNotFoundError branch
GETCatchAll(res, error) ==
    Response(500, MessageOnly(FetchFailedText[res]))

GETCatch(res, error) ==
    IF error.name = "DocumentNotFoundError"
    THEN Response(404, MessageAndError(NotFoundText[res]))
    ELSE Response(500, IF res = "airport"
                       THEN MessageAndError(FetchFailedText[res])
                       ELSE MessageOnly(FetchFailedText[res]))

POSTCatch(res, error) ==
    IF error.name = "DocumentExistsError"
    THEN Response(409, MessageAndError(ExistsText[res]))
    ELSE IF error.name = "ZodError"
    THEN Response(400, InvalidBody(error.issues))
    ELSE Response(500, MessageOnly(CreateFailedText[res]))


\* PUT without the ZodError branch
PUTCatchAll(res, error) ==
    Response(500, MessageOnly(UpdateFailedText[res]))

PUTCatch(res, error) ==
    IF error.name = "ZodError"
    THEN Response(400, InvalidBody(error.issues))
    ELSE Response(500, IF res = "airline"
                       THEN MessageAndError(UpdateFailedText[res])
                       ELSE MessageOnly(UpdateFailedText[res]))

DELETECatch(res, error) ==
    IF error.name = "DocumentNotFoundError"
    THEN Response(404, MessageAndError(NotFoundText[res]))
    ELSE Response(500, MessageOnly(DeleteFailedText[res]))

Catch(op, res, error) ==
    CASE op = "GET" -> GETCatch(res, error)
      [] op = "POST" -> POSTCatch(res, error)
      [] op = "PUT" -> PUTCatch(res, error)
      [] op = "DELETE" -> DELETECatch(res, error)


\* DELETE answering 204 No Content
ReturnedNoContent(op, res, data, content) ==
    CASE op = "GET" -> Response(200, content)
      [] op = "POST" -> Response(201, data)
      [] op = "PUT" -> Response(200, [envelope |-> EnvelopeKey[res], data |-> data])
      [] op = "DELETE" -> Response(204, MessageOnly(DeletedText[res]))

\* the response of the try block once the store call returned
Returned(op, res, data, content) ==
    CASE op = "GET" -> Response(200, content)
      [] op = "POST" -> Response(201, data)
      [] op = "PUT" -> Response(200, [envelope |-> EnvelopeKey[res], data |-> data])
      [] op = "DELETE" -> Response(202, MessageOnly(DeletedText[res]))

Answered(r, response) ==
    [r EXCEPT !.pc = "done", !.status = response.status, !.resp = response.body]

(***************************************************************************)
(* Steps.                                                                  *)
(***************************************************************************)
\* what is kept of an answered request: a failure keeps its status only
Summary(r) ==
    IF r.status < 400
    THEN [op |-> r.op, status |-> r.status, resp |-> r.resp, body |-> r.body,
          data |-> ParsedData(r.op, r.res, r.body),
          before |-> r.before, after |-> r.after]
    ELSE [NoSummary EXCEPT !.op = r.op, !.status = r.status,
                           !.before = r.before, !.after = r.after]

\* cur moves into prev when the next request addresses the same document
Remember(res, k) ==
    prev' = IF cur.pc = "done" /\ cur.res = res /\ cur.key = k
            THEN Summary(cur)
            ELSE NoSummary

\* a handler is entered: it reads and validates its input and asks for the
\* database
Receive(op, res, k, body) ==
    /\ cur.pc \in { "none", "done" }
    /\ res = suite
    /\ Remember(res, k)
    /\ LET r == [NoRequest EXCEPT !.op = op, !.res = res, !.key = k, !.body = body]
           error == EntryError(op, res, body)
       IN  IF error # NoError
           THEN /\ cur' = Answered(r, Catch(op, res, error))
                /\ UNCHANGED << cachedDbConnection, cachedConn, connects >>
           ELSE /\ GetDatabaseCall
                /\ cur' = IF GetDatabasePath = "connect"
                          THEN [r EXCEPT !.pc = "connecting", !.attempt = connects + 1]
                          ELSE [r EXCEPT !.pc = "haveDb"]
    /\ UNCHANGED << store, fts, suite , other,
                    searchIndexes, again >>

\* couchbase.connect resolves for the waiting handler
ConnectOk ==
    /\ cur.pc = "connecting"
    /\ ConnectResolved(cur.attempt)
    /\ cur' = [cur EXCEPT !.pc = "haveDb"]
    /\ UNCHANGED << store, fts, suite, prev,
                 other,
                    searchIndexes, again >>

\* a rejected couchbase.connect whose cluster is cached all the same
ConnectFailCaches ==
    /\ cur.pc = "connecting"
    /\ ConnectResolved(cur.attempt)
    /\ cur' = Answered(cur, Catch(cur.op, cur.res, Thrown("Error")))
    /\ UNCHANGED << store, fts, suite, prev, other, searchIndexes, again >>

\* couchbase.connect rejects: getDatabase() rejects into the handler's catch
ConnectFail ==
    /\ cur.pc = "connecting"
    /\ cur' = Answered(cur, Catch(cur.op, cur.res, Thrown("Error")))
    /\ UNCHANGED << store, cachedDbConnection, cachedConn, connects, fts, suite, prev,
                 other,
                    searchIndexes, again >>

\* a handler that tries its collection again when the call failed
StoreCallRetries(op, fails) ==
    /\ cur.pc = "haveDb"
    /\ cur.op = op
    /\ LET res == cur.res
           coll == store[res]
           data == ParsedData(op, res, cur.body)
           method == HandlerMethod(op)
           result == IF fails THEN CollectionFailure(coll)
                     ELSE CollectionCall(method, coll, cur.key, data)
           r == [cur EXCEPT !.call = [method |-> method, outcome |-> result.outcome],
                            !.before = Stored(coll, cur.key),
                            !.after = Stored(result.coll, cur.key)]
       IN  /\ store' = [store EXCEPT ![res] = result.coll]
           /\ cur' = IF result.outcome = "ok"
                     THEN Answered(r, Returned(op, res, data,
                                       IF op = "GET" THEN coll[cur.key] ELSE data))
                     ELSE IF result.outcome = "Error" /\ cur.call.method = "none"
                     THEN r
                     ELSE Answered(r, Catch(op, res, Thrown(result.outcome)))
    /\ UNCHANGED << cachedDbConnection, cachedConn, connects, fts, suite, prev,
                 other,
                    searchIndexes, again >>

\* the handler calls its collection and answers
StoreCall(op, fails) ==
    /\ cur.pc = "haveDb"
    /\ cur.op = op
    /\ LET res == cur.res
           coll == store[res]
           data == ParsedData(op, res, cur.body)
           method == HandlerMethod(op)
           result == IF fails THEN CollectionFailure(coll)
                     ELSE CollectionCall(method, coll, cur.key, data)
           r == [cur EXCEPT !.call = [method |-> method, outcome |-> result.outcome],
                            !.before = Stored(coll, cur.key),
                            !.after = Stored(result.coll, cur.key)]
       IN  /\ store' = [store EXCEPT ![res] = result.coll]
           /\ cur' = IF result.outcome = "ok"
                     THEN Answered(r, Returned(op, res, data,
                                       IF op = "GET" THEN coll[cur.key] ELSE data))
                     ELSE Answered(r, Catch(op, res, Thrown(result.outcome)))
    /\ UNCHANGED << cachedDbConnection, cachedConn, connects, fts, suite, prev,
                 other,
                    searchIndexes, again >>

GET == \E fails \in BOOLEAN : StoreCall("GET", fails)
POST == \E fails \in BOOLEAN : StoreCall("POST", fails)
PUT == \E fails \in BOOLEAN : StoreCall("PUT", fails)
DELETE == \E fails \in BOOLEAN : StoreCall("DELETE", fails)

\* insertFTSIndexes, called when the connection module is loaded, awaits
\* getDatabase() first
FtsConnectOk ==
    /\ fts.pc = "connecting"
    /\ ConnectResolved(fts.attempt)
    /\ fts' = [fts EXCEPT !.pc = "connected"]
    /\ UNCHANGED << store, suite, cur, prev,
                 other,
                    searchIndexes, again >>

FtsConnectFail ==
    /\ fts.pc = "connecting"
    /\ fts' = [fts EXCEPT !.pc = "failed"]
    /\ UNCHANGED << store, cachedDbConnection, cachedConn, connects, suite, cur, prev,
                 other,
                    searchIndexes, again >>

Init ==
    /\ store = [c \in Collections |-> EmptyObj]
    /\ cachedDbConnection = 0
    /\ cachedConn = 0
    /\ connects = 1
    /\ fts = [pc |-> "connecting", attempt |-> 1]
    /\ suite \in Resources
    /\ cur = NoRequest
    /\ prev = NoSummary
    /\ other = NoRequest
    /\ searchIndexes = << >>
    /\ again = NoRun

Next ==
    \/ \E op \in { "GET", "DELETE" }, k \in Keys : Receive(op, suite, k, NoBody)
    \/ \E op \in { "POST", "PUT" }, k \in Keys, body \in Bodies[suite] :
          Receive(op, suite, k, body)
    \/ ConnectOk
    \/ ConnectFail
    \/ GET
    \/ POST
    \/ PUT
    \/ DELETE
    \/ FtsConnectOk
    \/ FtsConnectFail

Spec == Init /\ [][Next]_vars

(***************************************************************************)
(* Two invocations in flight.  Node runs one handler at a time and         *)
(* switches to another one where the running handler awaits, so two        *)
(* requests that overlap interleave at getDatabase() and at the collection *)
(* call.  cur is the handler that runs, other the one that waits.          *)
(***************************************************************************)
\* a document stored before the requests arrive
Earlier(res) == Sample(SchemaOf(res), "k1", 3, FALSE)

\* a request comes in while no other one has been answered yet
Arrive(op, k, body) ==
    /\ cur.pc = "none"
    /\ other.pc # "done"
    /\ Receive(op, suite, k, body)

\* the running handler is suspended (or has returned) and the other one runs
Switch ==
    /\ cur # other
    /\ cur' = other
    /\ other' = cur
    /\ UNCHANGED << store, cachedDbConnection, cachedConn, connects, fts, suite, prev,
                    searchIndexes, again >>

InitRace ==
    /\ suite \in Resources
    /\ \E ks \in SUBSET Keys :
          store = [c \in Collections |->
                      IF c = suite THEN [k \in ks |-> Earlier(suite)] ELSE EmptyObj]
    /\ cachedDbConnection = 0
    /\ cachedConn = 0
    /\ connects = 1
    /\ fts = [pc |-> "connecting", attempt |-> 1]
    /\ cur = NoRequest
    /\ prev = NoSummary
    /\ other = NoRequest
    /\ searchIndexes = << >>
    /\ again = NoRun

NextRace ==
    \/ \E op \in { "GET", "DELETE" }, k \in Keys : Arrive(op, k, NoBody)
    \/ \E op \in { "POST", "PUT" }, k \in Keys, v \in ValidBodies(suite) :
          Arrive(op, k, Json(v))
    \/ Switch
    \/ ConnectOk
    \/ ConnectFail
    \/ GET
    \/ POST
    \/ PUT
    \/ DELETE
    \/ FtsConnectOk
    \/ FtsConnectFail

SpecRace == InitRace /\ [][NextRace]_vars


(***************************************************************************)
(* Properties of the CRUD handlers.                                        *)
(***************************************************************************)
\* the request reached its collection and the store served the call (it did
\* not end in an unclassified failure such as a timeout)
StoreAnswered(r) == r.call.method # "none" /\ r.call.outcome # "Error"

Done(op) == cur.pc = "done" /\ cur.op = op
ValidRequest == cur.body.kind = "json" /\ Parsed[cur.res][cur.body].ok
Current == Stored(store[cur.res], cur.key)

ClaimedConflict ==
    [airline |-> [message |-> "Airline already exists", error |-> "Airline already exists"],
     airport |-> [message |-> "Airport already exists", error |-> "Airport already exists"],
     route |-> [message |-> "Route already exists", error |-> "Route already exists"]]
ClaimedNotFound ==
    [airline |-> [message |-> "Airline not found", error |-> "Airline not found"],
     airport |-> [message |-> "Airport not found", error |-> "Airport not found"],
     route |-> [message |-> "Route not found", error |-> "Route not found"]]

\* the fields a schema declares
Declared(res) == { SchemaOf(res).shape[i].name : i \in 1..Len(SchemaOf(res).shape) }

\* d is body P reduced to the declared fields, with P's values
NormalFormOf(d, P, res) ==
    /\ d.t = "object"
    /\ DOMAIN d.v = (DOMAIN P.v) \cap Declared(res)
    /\ \A k \in DOMAIN d.v : d.v[k] = P.v[k]

\* C1: a POST on a key that already holds a document never changes the
\* store, and once the store has answered the call the response is 409 with
\* message and error "<Resource> already exists".
NoClobberCreate ==
    [][ (cur.pc = "haveDb" /\ cur.op = "POST" /\ cur.key \in DOMAIN store[cur.res]
            /\ cur'.pc = "done")
        => /\ store' = store
           /\ StoreAnswered(cur') =>
                 /\ cur'.status = 409
                 /\ cur'.resp = ClaimedConflict[cur.res] ]_vars

\* a create was refused on a key holding a document other than the payload
ConflictReached ==
    /\ Done("POST") /\ cur.status = 409
    /\ cur.before.present
    /\ cur.before.doc # Parsed[cur.res][cur.body].data
    /\ Current = cur.before

\* C2: a PUT that follows a PUT answered 200 on the same key with the same
\* valid payload leaves the document of the first call in place, and is
\* answered 200 with the same body once the store has answered it.
UpsertIdempotent ==
    (Done("PUT") /\ ValidRequest /\ prev.op = "PUT" /\ prev.status = 200
        /\ prev.body = cur.body)
    => /\ Current = prev.after
       /\ prev.after = Doc(prev.data)
       /\ StoreAnswered(cur) => cur.status = 200 /\ cur.resp = prev.resp

\* the second of two equal upserts was answered, the first having created
\* the document
UpsertTwiceReached ==
    /\ Done("PUT") /\ cur.status = 200
    /\ prev.op = "PUT" /\ prev.status = 200 /\ prev.body = cur.body
    /\ ~prev.before.present

FetchByKey ==
    Done("GET")
    => /\ cur.status \in { 200, 404, 500 }
       /\ (StoreAnswered(cur) /\ cur.before.present)
          => cur.status = 200 /\ cur.resp = cur.before.doc /\ Current = cur.before
       /\ (StoreAnswered(cur) /\ ~cur.before.present)
          => cur.status = 404 /\ cur.resp = ClaimedNotFound[cur.res]
       /\ ~StoreAnswered(cur) => cur.status = 500

\* a fetch of a missing key was answered 404 after a fetch that failed
FetchNotFoundReached ==
    /\ Done("GET") /\ cur.status = 404
    /\ prev.op = "GET" /\ prev.status = 500

\* C5: a DELETE on a key that holds a document is answered 202 and leaves
\* the key empty, so that the GET that follows is answered 404 and the POST
\* of a valid payload that follows is answered 201; a DELETE on a key that
\* holds none is answered 404 with message and error "<Resource> not found"
\* and changes nothing in the store.  (All once the store has answered.)
RemoveByKey ==
    /\ [](Done("DELETE") /\ StoreAnswered(cur) /\ cur.before.present
            => cur.status = 202 /\ ~Current.present)
    /\ [](prev.op = "DELETE" /\ prev.status = 202 /\ StoreAnswered(cur)
            => /\ Done("GET") => cur.status = 404
               /\ Done("POST") /\ ValidRequest => cur.status = 201)
    /\ [][ (cur.pc = "haveDb" /\ cur.op = "DELETE"
              /\ cur.key \notin DOMAIN store[cur.res] /\ cur'.pc = "done")
           => /\ store' = store
              /\ StoreAnswered(cur') =>
                    /\ cur'.status = 404
                    /\ cur'.resp = ClaimedNotFound[cur.res] ]_vars

\* a document was created again on a key whose document had been removed
RemovedThenCreatedReached ==
    /\ Done("POST") /\ cur.status = 201
    /\ prev.op = "DELETE" /\ prev.status = 202 /\ prev.before.present


\* C6: a POST or PUT whose body fails the schema is answered 400 with
\* message "Invalid request body", whether or not the key holds a document;
\* the handler makes no call to its collection and the store is unchanged.
ValidationFirst ==
    /\ []((cur.pc = "done" /\ cur.op \in { "POST", "PUT" }
             /\ cur.body.kind = "json" /\ ~Parsed[cur.res][cur.body].ok)
          => /\ cur.status = 400
             /\ cur.resp.message = "Invalid request body"
             /\ cur.call = NoCall)
    /\ [][ (cur' # cur /\ cur'.pc = "done" /\ cur'.op \in { "POST", "PUT" }
              /\ cur'.body.kind = "json" /\ ~Parsed[cur'.res][cur'.body].ok)
           => store' = store ]_vars

\* an invalid body was refused on a key that holds a document
InvalidOnExistingReached ==
    /\ Done("POST") /\ cur.status = 400
    /\ cur.body.kind = "json"
    /\ Current.present

\* C7: a PUT is answered 200, 400 or 500 and never 404 or 409: 200 for a
\* valid payload once the store has answered, the key then holding the
\* payload's normal form whether or not it held a document before; 400
\* exactly for a body that fails the schema; 500 only when no answer of the
\* store was obtained.
UpsertNeverNotFound ==
    Done("PUT")
    => /\ cur.status \in { 200, 400, 500 }
       /\ (ValidRequest /\ StoreAnswered(cur))
          => cur.status = 200 /\ Current = Doc(Parsed[cur.res][cur.body].data)
       /\ cur.status = 400 <=> (cur.body.kind = "json" /\ ~Parsed[cur.res][cur.body].ok)
       /\ cur.status = 500 => ~StoreAnswered(cur)

\* an upsert replaced the document that an upsert on the absent key created
UpsertCreatedThenReplacedReached ==
    /\ Done("PUT") /\ cur.status = 200
    /\ cur.before.present /\ cur.before.doc # cur.after.doc
    /\ prev.op = "PUT" /\ prev.status = 200 /\ ~prev.before.present

\* C8: the GET that follows a PUT answered 200 returns exactly the normal
\* form of the PUT's payload: every key of the response is a key of that
\* payload, whatever the key held before the PUT.
UpsertFullReplace ==
    (Done("GET") /\ StoreAnswered(cur) /\ prev.op = "PUT" /\ prev.status = 200)
    => /\ cur.status = 200
       /\ NormalFormOf(cur.resp, prev.body.value, cur.res)
       /\ cur.resp = prev.data

\* the replaced document had a field that the payload of the PUT lacks
ReplacedFieldGoneReached ==
    /\ Done("GET") /\ cur.status = 200
    /\ prev.op = "PUT" /\ prev.status = 200 /\ prev.before.present
    /\ \E k \in DOMAIN prev.before.doc.v : k \notin DOMAIN cur.resp.v


(***************************************************************************)
(* JavaScript values of a query string and their conversion to numbers.    *)
(* searchParams.get(name) is null or a string; the texts of limit and      *)
(* offset are spelled out character by character, because the handlers     *)
(* parse them.  A JavaScript number is NaN or a finite decimal: a sign, an *)
(* integer part and the digits of its fraction (none for an integer).      *)
(***************************************************************************)
Null == [t |-> "null"]
Text(q) == [t |-> "string", q |-> q]
JsNumber(n) == [t |-> "number", n |-> n]

NaN == [kind |-> "NaN", neg |-> FALSE, int |-> 0, frac |-> << >>]
Finite(neg, int, frac) == [kind |-> "finite", neg |-> neg, int |-> int, frac |-> frac]
Integer(n) == Finite(n < 0, IF n < 0 THEN -n ELSE n, << >>)

\* Number.isInteger
IsInteger(x) == x.kind = "finite" /\ x.frac = << >>

DigitValue ==
    "0" :> 0 @@ "1" :> 1 @@ "2" :> 2 @@ "3" :> 3 @@ "4" :> 4 @@
    "5" :> 5 @@ "6" :> 6 @@ "7" :> 7 @@ "8" :> 8 @@ "9" :> 9

IsDigit(c) == c \in DOMAIN DigitValue

\* the length of the longest prefix of q made of digits
LeadingDigits(q) ==
    CHOOSE n \in 0..Len(q) :
        /\ \A j \in 1..n : IsDigit(q[j])
        /\ n = Len(q) \/ ~IsDigit(q[n + 1])

RECURSIVE DigitsValue(_)
DigitsValue(q) ==
    IF q = << >> THEN 0
    ELSE 10 * DigitsValue(SubSeq(q, 1, Len(q) - 1)) + DigitValue[q[Len(q)]]

\* the digits of a fraction without its trailing zeros
RECURSIVE Significant(_)
Significant(q) ==
    IF q # << >> /\ q[Len(q)] = "0" THEN Significant(SubSeq(q, 1, Len(q) - 1)) ELSE q

\* the text without the white space around it
RECURSIVE Trim(_)
Trim(q) ==
    IF q # << >> /\ q[1] = " " THEN Trim(Tail(q))
    ELSE IF q # << >> /\ q[Len(q)] = " " THEN Trim(SubSeq(q, 1, Len(q) - 1))
    ELSE q

Signed(q) == q # << >> /\ q[1] \in { "-", "+" }
Unsigned(q) == IF Signed(q) THEN Tail(q) ELSE q

\* ECMAScript StringToNumber on decimal texts (the texts of this model have
\* no exponent, no radix prefix and no Infinity): the empty text is 0, a
\* signed decimal literal is its value, everything else is NaN
StringToNumber(text) ==
    LET q == Trim(text)
        body == Unsigned(q)
        n == LeadingDigits(body)
        rest == SubSeq(body, n + 1, Len(body))
        dot == rest # << >> /\ rest[1] = "."
        frac == IF dot THEN Tail(rest) ELSE << >>
        m == LeadingDigits(frac)
    IN  IF q = << >> THEN Integer(0)
        ELSE IF (dot /\ m = Len(frac) /\ n + m > 0) \/ (~dot /\ rest = << >> /\ n > 0)
        THEN Finite(Signed(q) /\ q[1] = "-", DigitsValue(SubSeq(body, 1, n)),
                    Significant(frac))
        ELSE NaN

\* Number(value) for a number or a string
Number(value) ==
    IF value.t = "number" THEN value.n ELSE StringToNumber(value.q)

\* parseInt(string), radix 10: the leading white space is skipped, then the
\* sign and the longest run of digits are read; NaN when there is no digit
parseInt(value) ==
    LET q == Trim(value.q)
        body == Unsigned(q)
        n == LeadingDigits(body)
    IN  IF n = 0 THEN NaN
        ELSE Finite(Signed(q) /\ q[1] = "-", DigitsValue(SubSeq(body, 1, n)), << >>)

\* left ?? right
Coalesce(left, right) == IF left.t = "null" THEN right ELSE left


(***************************************************************************)
(* The query and search services as the list / search / filter handlers    *)
(* use them: scope.query(statement, {parameters}) and                      *)
(* cluster.searchQuery(index, query, options).                             *)
(***************************************************************************)
HotelSchema ==
    ZObject(<< Optional("name", ZString),
               Optional("title", ZString),
               Optional("description", ZString),
               Optional("country", ZString),
               Optional("city", ZString),
               Optional("state", ZString) >>)

HotelFields == { HotelSchema.shape[i].name : i \in 1..Len(HotelSchema.shape) }

\* the columns the airline statements select
AirlineColumns == { "callsign", "country", "iata", "icao", "id", "name", "type" }

\* the texts of filter values, in lower case and with their prefixes
toLowerCase ==
    "" :> "" @@ "k" :> "k" @@ "k1" :> "k1" @@ "k2" :> "k2" @@ "K2" :> "k2" @@ "zz" :> "zz"

PrefixesOf ==
    "" :> { "" } @@ "k" :> { "", "k" } @@ "k1" :> { "", "k", "k1" }
    @@ "k2" :> { "", "k", "k2" } @@ "zz" :> { "", "z", "zz" }

\* the orders in which the services may return the documents of a collection
KeyOrders == { << "k1", "k2" >>, << "k2", "k1" >> }

Range(q) == { q[i] : i \in 1..Len(q) }

RECURSIVE Distinct(_)
Distinct(q) ==
    IF q = << >> THEN << >>
    ELSE LET front == Distinct(SubSeq(q, 1, Len(q) - 1))
         IN  IF q[Len(q)] \in Range(front) THEN front ELSE Append(front, q[Len(q)])

\* a comparison that holds of any value the field has
HasAnyValue(d, f, val) == f \in DOMAIN d.v

\* document d has field f with value val
Has(d, f, val) == f \in DOMAIN d.v /\ d.v[f].t = val.t /\ d.v[f] = val

\* SELECT a.c1, a.c2, ...: a column the document lacks is left out
Project(d, columns) == Obj([f \in (DOMAIN d.v) \cap columns |-> d.v[f]])

\* the keys of coll, in the given order, whose documents satisfy Where
Select(coll, order, Where(_, _)) ==
    SelectSeq(order, LAMBDA k : k \in DOMAIN coll /\ Where(k, coll[k]))

\* the rows of a statement before LIMIT and OFFSET
Evaluate(statement, parameters, db, order) ==
    CASE statement = "airlines" ->
            LET ks == Select(db.airline, order, LAMBDA k, d : TRUE)
            IN  [i \in 1..Len(ks) |-> Project(db.airline[ks[i]], AirlineColumns)]
      [] statement = "airlinesOfCountry" ->
            LET ks == Select(db.airline, order,
                             LAMBDA k, d : Has(d, "country", Str(parameters.COUNTRY)))
            IN  [i \in 1..Len(ks) |-> Project(db.airline[ks[i]], AirlineColumns)]
      [] statement = "airlinesToAirport" ->
            LET ks == Select(db.airline, order,
                             LAMBDA k, d : \E r \in DOMAIN db.route :
                                /\ Has(db.route[r], "airlineid", Str(k))
                                /\ Has(db.route[r], "destinationairport",
                                       Str(parameters.AIRPORT)))
            IN  [i \in 1..Len(ks) |-> Project(db.airline[ks[i]], AirlineColumns)]
      [] statement = "directConnections" ->
            LET code == Str(parameters.destinationAirportCode)
                ks == Select(db.route, order,
                             LAMBDA k, d :
                                /\ Has(d, "sourceairport", code)
                                /\ Has(d, "stops", Num(0))
                                /\ "destinationairport" \in DOMAIN d.v
                                /\ \E a \in DOMAIN db.airport :
                                      Has(db.airport[a], "faa", code))
            IN  Distinct([i \in 1..Len(ks) |->
                            Obj([f \in { "destinationairport" } |->
                                    db.route[ks[i]].v.destinationairport])])
      [] statement = "hotels" ->
            LET ks == Select(db.hotel, order,
                             LAMBDA k, d : \A f \in DOMAIN parameters.WHERE :
                                Has(d, f, Str(parameters.WHERE[f])))
            IN  [i \in 1..Len(ks) |-> [hotel |-> db.hotel[ks[i]]]]

\* a search query: prefix and match on one field, or a conjunction
Prefix(term, field) == [kind |-> "prefix", term |-> term, field |-> field, of |-> << >>]
Match(term, field) == [kind |-> "match", term |-> term, field |-> field, of |-> << >>]
Conjuncts(queries) == [kind |-> "conjuncts", term |-> "", field |-> "", of |-> queries]

\* a service for which a conjunction without conjuncts holds of every
\* document
MatchesVacuously(query, d) ==
    LET Hit(q) ==
            /\ q.field \in DOMAIN d.v
            /\ d.v[q.field].t = "string"
            /\ IF q.kind = "prefix"
               THEN q.term \in PrefixesOf[toLowerCase[d.v[q.field].v]]
               ELSE toLowerCase[q.term] = toLowerCase[d.v[q.field].v]
    IN  IF query.kind = "conjuncts"
        THEN \A i \in 1..Len(query.of) : Hit(query.of[i])
        ELSE Hit(query)

\* the analysed text of field f of document d starts with / is the term; a
\* match query analyses its term, a prefix query does not; a conjunction
\* without conjuncts matches nothing
Matches(query, d) ==
    LET Hit(q) ==
            /\ q.field \in DOMAIN d.v
            /\ d.v[q.field].t = "string"
            /\ IF q.kind = "prefix"
               THEN q.term \in PrefixesOf[toLowerCase[d.v[q.field].v]]
               ELSE toLowerCase[q.term] = toLowerCase[d.v[q.field].v]
    IN  IF query.kind = "conjuncts"
        THEN query.of # << >> /\ \A i \in 1..Len(query.of) : Hit(query.of[i])
        ELSE Hit(query)

\* the rows of a search before limit and skip, with fields: ['*']
Search(query, db, order) ==
    LET ks == Select(db.hotel, order, LAMBDA k, d : Matches(query, d))
    IN  [i \in 1..Len(ks) |-> [id |-> ks[i], fields |-> db.hotel[ks[i]]]]

\* the counts a service may apply for a LIMIT / OFFSET (limit / skip) value:
\* the value itself when it is a natural number; the repository does not
\* determine what the service does with anything else
Applied(x, rows) ==
    IF IsInteger(x) /\ ~x.neg THEN { x.int } ELSE 0..Len(rows)

\* a service that skips the offset and returns everything after it
PageUnlimited(rows, limit, offset) == SubSeq(rows, offset + 1, Len(rows))

Page(rows, limit, offset) ==
    SubSeq(rows, offset + 1, IF offset + limit < Len(rows) THEN offset + limit ELSE Len(rows))


(***************************************************************************)
(* The list / search / filter handlers: airline list, airlines to an       *)
(* airport, direct connections of an airport, hotel search and hotel       *)
(* filter, the latter in its full-text variant ("hotelFilter") and in its   *)
(* SQL++ variant ("hotelFilterSql").                                       *)
(***************************************************************************)
Endpoints ==
    { "airlineList", "toAirport", "directConnections", "hotelSearch", "hotelFilter",
      "hotelFilterSql" }

NoFilters == [n \in {} |-> ""]
NoSend == [method |-> "none"]

NoQuery ==
    [pc |-> "none", op |-> "none", filters |-> NoFilters, limit |-> Null, offset |-> Null,
     attempt |-> 0, sent |-> NoSend, status |-> 0, resp |-> << >>]

\* searchParams.get(name) of a filter: null or its text
Param(filters, name) ==
    IF name \in DOMAIN filters THEN [t |-> "string", s |-> filters[name]] ELSE Null

\* !value for null or a string
Not(value) == value.t = "null" \/ value.s = ""

\* the name of the filter the handler insists on
RequiredFilter ==
    [toAirport |-> "destinationAirportCode",
     directConnections |-> "destinationAirportCode",
     hotelSearch |-> "name"]

\* a test that lets an empty text pass for a filter that is there
MissingFilterAbsentOnly(ep, filters) ==
    ep \in DOMAIN RequiredFilter /\ RequiredFilter[ep] \notin DOMAIN filters

\* the handler's test for its required filter
MissingFilter(ep, filters) ==
    CASE ep = "toAirport" ->
            Coalesce(Param(filters, RequiredFilter[ep]), [t |-> "string", s |-> ""]).s = ""
      [] ep = "directConnections" -> Not(Param(filters, RequiredFilter[ep]))
      [] ep = "hotelSearch" ->
            Not(Coalesce(Param(filters, RequiredFilter[ep]), [t |-> "string", s |-> ""]))
      [] OTHER -> FALSE

BadRequest(ep) ==
    IF ep = "hotelSearch"
    THEN Response(400, [error |-> "name query parameter is required"])
    ELSE Response(400, [message |-> "Destination airport code is required"])

\* limit and offset as the handler converts them: Number(get(..) ?? 10) in
\* the SQL++ handlers, parseInt(get(..) ?? '10') in the full-text ones
Limit(ep, limit) ==
    IF ep \in { "hotelSearch", "hotelFilter" }
    THEN parseInt(Coalesce(limit, Text(<< "1", "0" >>)))
    ELSE Number(Coalesce(limit, JsNumber(Integer(10))))

Offset(ep, offset) ==
    IF ep \in { "hotelSearch", "hotelFilter" }
    THEN parseInt(Coalesce(offset, Text(<< "0" >>)))
    ELSE Number(Coalesce(offset, JsNumber(Integer(0))))

ScopeQuery(statement, parameters) ==
    [method |-> "query", statement |-> statement, parameters |-> parameters]

SearchQuery(query, limit, skip) ==
    [method |-> "searchQuery", index |-> "hotel_search", query |-> query,
     options |-> [limit |-> limit, skip |-> skip]]

\* the match queries of the hotel filter, in the order the handler pushes them
FilterQueries(filters) ==
    LET order == << "name", "title", "description", "country", "city", "state" >>
        given == SelectSeq(order, LAMBDA f : ~Not(Param(filters, f)))
    IN  [i \in 1..Len(given) |-> Match(filters[given[i]], given[i])]

\* Object.fromEntries(searchParams.entries()): every value is a string
SearchParams(filters, limit, offset) ==
    LET names == (DOMAIN filters)
                 \cup (IF limit.t = "null" THEN {} ELSE { "limit" })
                 \cup (IF offset.t = "null" THEN {} ELSE { "offset" })
    IN  Obj([n \in names |->
                IF n = "limit" THEN Str(limit.q)
                ELSE IF n = "offset" THEN Str(offset.q)
                ELSE Str(filters[n])])

\* what the handler throws before it asks for the database: the SQL++ hotel
\* filter validates its query string with HotelSchema.parse
QueryEntryError(ep, filters, limit, offset) ==
    IF ep = "hotelFilterSql"
    THEN LET parsed == ZodParse(HotelSchema, SearchParams(filters, limit, offset))
         IN  IF parsed.ok THEN NoError ELSE ZodError(parsed.issues)
    ELSE NoError

\* the call the handler makes once its filter is there
Sent(ep, filters, limit, offset) ==
    LET LIMIT == Limit(ep, limit)
        OFFSET == Offset(ep, offset)
    IN  CASE ep = "airlineList" ->
                LET country == Coalesce(Param(filters, "country"), [t |-> "string", s |-> ""]).s
                IN  IF country = ""
                    THEN ScopeQuery("airlines", [LIMIT |-> LIMIT, OFFSET |-> OFFSET])
                    ELSE ScopeQuery("airlinesOfCountry",
                            [COUNTRY |-> country, LIMIT |-> LIMIT, OFFSET |-> OFFSET])
          [] ep = "toAirport" ->
                ScopeQuery("airlinesToAirport",
                    [AIRPORT |-> filters.destinationAirportCode,
                     LIMIT |-> LIMIT, OFFSET |-> OFFSET])
          [] ep = "directConnections" ->
                ScopeQuery("directConnections",
                    [destinationAirportCode |-> filters.destinationAirportCode,
                     LIMIT |-> LIMIT, OFFSET |-> OFFSET])
          [] ep = "hotelSearch" ->
                SearchQuery(Prefix(toLowerCase[filters.name], "name"), LIMIT, OFFSET)
          [] ep = "hotelFilter" ->
                SearchQuery(Conjuncts(FilterQueries(filters)), LIMIT, OFFSET)
          [] ep = "hotelFilterSql" ->
                LET parsedParams == ZodParse(HotelSchema, SearchParams(filters, limit, offset)).data.v
                    given == { f \in DOMAIN parsedParams : parsedParams[f].v # "" }
                IN  ScopeQuery("hotels",
                        [WHERE |-> [f \in given |-> parsedParams[f].v],
                         LIMIT |-> LIMIT, OFFSET |-> OFFSET])

\* the rows of a call before pagination, and its pagination values
Rows(call, db, order) ==
    IF call.method = "query"
    THEN Evaluate(call.statement, call.parameters, db, order)
    ELSE Search(call.query, db, order)

SentLimit(call) ==
    IF call.method = "query" THEN call.parameters.LIMIT ELSE call.options.limit
SentOffset(call) ==
    IF call.method = "query" THEN call.parameters.OFFSET ELSE call.options.skip

\* the 200 response a handler builds from result.rows
Found(ep, rows) ==
    CASE ep = "directConnections" ->
            Response(200, [i \in 1..Len(rows) |-> rows[i].v.destinationairport])
      [] ep = "hotelSearch" ->
            Response(200, [i \in 1..Len(rows) |-> rows[i].fields])
      [] ep = "hotelFilter" ->
            Response(200, [i \in 1..Len(rows) |->
                Obj(WithKey(Project(rows[i].fields, HotelFields).v, "id", Str(rows[i].id)))])
      [] ep = "hotelFilterSql" ->
            Response(200, [i \in 1..Len(rows) |-> rows[i].hotel])
      [] OTHER -> Response(200, rows)

\* a rejection with its message
Failure(message) == [name |-> "Error", message |-> message]

\* the catch of a list / search / filter handler
QueryCatch(ep, error) ==
    CASE ep = "airlineList" ->
            Response(500, [message |-> "An error occurred while fetching airlines"])
      [] ep = "toAirport" ->
            Response(500, [message |-> "Failed to fetch airlines"])
      [] ep = "directConnections" ->
            Response(500, [message |-> "An error occurred while fetching connections"])
      [] ep = "hotelFilterSql" /\ error.name = "ZodError" ->
            Response(400, [error |-> "Invalid request parameters", message |-> error.issues])
      [] OTHER ->
            Response(500, [error |-> "Internal server error", message |-> error.message])


(***************************************************************************)
(* Query strings a client sends, and the documents they are run against.   *)
(***************************************************************************)
\* the texts of limit and offset: empty, a count, a word, a fraction, a
\* negative count and a count followed by a letter
NumberTexts ==
    { << >>, << "1" >>, << "a", "b", "c" >>, << "1", ".", "5" >>, << "-", "1" >>,
      << "1", "a" >> }

PageValues == { Null } \cup { Text(q) : q \in NumberTexts }

FilterTexts == { "", "k1", "k2", "K2", "k", "zz" }

\* the filters of a request: none, or one text for the endpoint's filter;
\* the hotel filter also takes all six fields and two that disagree
Filters(ep) ==
    CASE ep = "airlineList" ->
            { NoFilters } \cup { "country" :> t : t \in FilterTexts }
      [] ep \in DOMAIN RequiredFilter ->
            { NoFilters } \cup { RequiredFilter[ep] :> t : t \in FilterTexts }
      [] ep \in { "hotelFilter", "hotelFilterSql" } ->
            { NoFilters, [f \in HotelFields |-> "k1"], "country" :> "k1" @@ "city" :> "k2" }
            \cup { f :> t : f \in HotelFields, t \in { "", "k1", "K2" } }

\* the travel-sample documents at the given keys: both routes are flown by
\* airline k1 to airport k2, without stops
TravelSample(ks) ==
    [c \in Collections |->
        CASE c = "airline" -> [k \in ks |-> Sample(AirlineSchema, k, 1, TRUE)]
          [] c = "airport" -> [k \in ks |-> Sample(AirportSchema, k, 1, TRUE)]
          [] c = "route" ->
                [k \in ks |->
                    Obj(WithKey(WithKey(Sample(RouteSchema, k, 0, TRUE).v,
                                        "airlineid", Str("k1")),
                                "destinationairport", Str("k2")))]
          [] c = "hotel" -> [k \in ks |-> Sample(HotelSchema, k, 0, TRUE)]]

(***************************************************************************)
(* Steps of the list / search / filter handlers.                           *)
(***************************************************************************)
\* a handler is entered and asks for the database (the hotel filters build
\* their query first; only the SQL++ variant's HotelSchema.parse can throw)
QueryReceive(ep, filters, limit, offset) ==
    /\ cur.pc \in { "none", "done" }
    /\ suite = [op |-> ep, filters |-> filters, limit |-> limit, offset |-> offset]
    /\ LET r == [NoQuery EXCEPT !.op = ep, !.filters = filters,
                                !.limit = limit, !.offset = offset]
           error == QueryEntryError(ep, filters, limit, offset)
       IN  IF error # NoError
           THEN /\ cur' = Answered(r, QueryCatch(ep, error))
                /\ UNCHANGED << cachedDbConnection, cachedConn, connects >>
           ELSE /\ GetDatabaseCall
                /\ cur' = IF GetDatabasePath = "connect"
                          THEN [r EXCEPT !.pc = "connecting", !.attempt = connects + 1]
                          ELSE [r EXCEPT !.pc = "haveDb"]
    /\ UNCHANGED << store, fts, suite, prev,
                 other,
                    searchIndexes, again >>

\* couchbase.connect rejects: getDatabase() rejects into the handler's catch
QueryConnectFail ==
    /\ cur.pc = "connecting"
    /\ cur' = Answered(cur, QueryCatch(cur.op, Failure("cannot connect")))
    /\ UNCHANGED << store, cachedDbConnection, cachedConn, connects, fts, suite, prev,
                 other,
                    searchIndexes, again >>

\* with the database in hand the handler checks its required filter, makes
\* its one call and answers
Query(ep, fails, order) ==
    /\ cur.pc = "haveDb"
    /\ cur.op = ep
    /\ IF MissingFilter(ep, cur.filters)
       THEN cur' = Answered(cur, BadRequest(ep))
       ELSE LET call == Sent(ep, cur.filters, cur.limit, cur.offset)
                rows == Rows(call, store, order)
                r == [cur EXCEPT !.sent = call]
            IN  IF fails
                THEN cur' = Answered(r, QueryCatch(ep, Failure("request failed")))
                ELSE \E limit \in Applied(SentLimit(call), rows),
                        offset \in Applied(SentOffset(call), rows) :
                        cur' = Answered(r, Found(ep, Page(rows, limit, offset)))
    /\ UNCHANGED << store, cachedDbConnection, cachedConn, connects, fts, suite, prev,
                 other,
                    searchIndexes, again >>

AirlineList == \E fails \in BOOLEAN, order \in KeyOrders : Query("airlineList", fails, order)
ToAirport == \E fails \in BOOLEAN, order \in KeyOrders : Query("toAirport", fails, order)
DirectConnections ==
    \E fails \in BOOLEAN, order \in KeyOrders : Query("directConnections", fails, order)
HotelSearch == \E fails \in BOOLEAN, order \in KeyOrders : Query("hotelSearch", fails, order)
HotelFilter == \E fails \in BOOLEAN, order \in KeyOrders : Query("hotelFilter", fails, order)
HotelFilterSql ==
    \E fails \in BOOLEAN, order \in KeyOrders : Query("hotelFilterSql", fails, order)

InitQuery ==
    /\ \E ks \in SUBSET Keys : store = TravelSample(ks)
    /\ cachedDbConnection = 0
    /\ cachedConn = 0
    /\ connects = 1
    /\ fts = [pc |-> "connecting", attempt |-> 1]
    /\ \E ep \in Endpoints : \E filters \in Filters(ep), limit \in PageValues,
          offset \in PageValues :
            suite = [op |-> ep, filters |-> filters, limit |-> limit, offset |-> offset]
    /\ cur = NoQuery
    /\ prev = NoSummary
    /\ other = NoQuery
    /\ searchIndexes = << >>
    /\ again = NoRun

NextQuery ==
    \/ QueryReceive(suite.op, suite.filters, suite.limit, suite.offset)
    \/ ConnectOk
    \/ QueryConnectFail
    \/ AirlineList
    \/ ToAirport
    \/ DirectConnections
    \/ HotelSearch
    \/ HotelFilter
    \/ HotelFilterSql
    \/ FtsConnectOk
    \/ FtsConnectFail

SpecQuery == InitQuery /\ [][NextQuery]_vars


(***************************************************************************)
(* Properties of the list / search / filter handlers.                      *)
(***************************************************************************)
QueryDone == cur.pc = "done" /\ cur.op \in Endpoints

\* the request names no destinationAirportCode at a required-filter endpoint
WithoutAirportCode ==
    /\ cur.op \in { "toAirport", "directConnections" }
    /\ "destinationAirportCode" \notin DOMAIN cur.filters

\* a text that is there and has no digit in it
NonNumeric(value) ==
    value.t = "string" /\ value.q # << >> /\ \A i \in 1..Len(value.q) : ~IsDigit(value.q[i])

\* C9: a request to the airline to-airport or the airport direct-connections
\* endpoint that carries no destinationAirportCode is answered 400 with the
\* message "Destination airport code is required", whatever the connection
\* and the store do (the answer never depends on them).
MissingFilterGuardFirst ==
    (QueryDone /\ WithoutAirportCode) =>
        /\ cur.status = 400
        /\ cur.resp = [message |-> "Destination airport code is required"]

\* C10: the limit and offset a list / search / filter handler hands to the
\* store are integers: 10 and 0 when the parameter is absent, and also 10
\* and 0 when its text is not a number.
PaginationCoerced ==
    (cur.op \in Endpoints /\ cur.sent.method # "none") =>
        /\ IsInteger(SentLimit(cur.sent))
        /\ IsInteger(SentOffset(cur.sent))
        /\ (cur.limit.t = "null" \/ NonNumeric(cur.limit)) =>
              SentLimit(cur.sent) = Integer(10)
        /\ (cur.offset.t = "null" \/ NonNumeric(cur.offset)) =>
              SentOffset(cur.sent) = Integer(0)


\* a text made of decimal digits only
AllDigits(value) ==
    value.t = "string" /\ value.q # << >> /\ \A i \in 1..Len(value.q) : IsDigit(value.q[i])

\* n <= x for a natural n and a JavaScript number x (never true of NaN)
AtMost(n, x) ==
    /\ x.kind = "finite"
    /\ IF x.neg THEN n = 0 /\ x.int = 0 /\ x.frac = << >> ELSE n <= x.int

\* C11: every 200 answer of a list / search / filter request has
\* at most limit elements, whatever text the client sent as limit; limit is
\* the number the handler made of that text, 10 when there is none.
PaginationBoundAnyText ==
    (QueryDone /\ cur.status = 200) => AtMost(Len(cur.resp), SentLimit(cur.sent))

\* what the handlers do guarantee: when limit is absent or written as a
\* natural number, the handler asks for 10, respectively that number, and the
\* 200 answer has at most that many elements; an answer has at most as many
\* elements as any natural number handed to the store as limit
PaginationBound ==
    (QueryDone /\ cur.status = 200) =>
        /\ cur.limit.t = "null" => SentLimit(cur.sent) = Integer(10)
        /\ AllDigits(cur.limit) => SentLimit(cur.sent) = Integer(DigitsValue(cur.limit.q))
        /\ (cur.limit.t = "null" \/ AllDigits(cur.limit)) =>
              AtMost(Len(cur.resp), SentLimit(cur.sent))
        /\ (IsInteger(SentLimit(cur.sent)) /\ ~SentLimit(cur.sent).neg) =>
              Len(cur.resp) <= SentLimit(cur.sent).int

\* a page of one airline was cut out of two
PageCutReached ==
    /\ QueryDone /\ cur.status = 200 /\ cur.op = "airlineList"
    /\ cur.limit = Text(<< "1" >>) /\ cur.offset.t = "null"
    /\ cur.filters = NoFilters
    /\ Cardinality(DOMAIN store.airline) = 2
    /\ Len(cur.resp) = 1


(***************************************************************************)
(* Every handler: a run of the CRUD handlers or of a list / search /       *)
(* filter handler.                                                         *)
(***************************************************************************)
\* the request at hand belongs to a CRUD handler
Crud(r) == "res" \in DOMAIN r

InitAll == Init \/ InitQuery

\* the steps of Next where cur is a request of the [id] handlers, those of
\* NextQuery where it is one of the list / search / filter handlers
NextAll ==
    \/ Crud(cur) /\ \E op \in { "GET", "DELETE" }, k \in Keys :
                        Receive(op, suite, k, NoBody)
    \/ Crud(cur) /\ \E op \in { "POST", "PUT" }, k \in Keys, body \in Bodies[suite] :
                        Receive(op, suite, k, body)
    \/ ~Crud(cur) /\ QueryReceive(suite.op, suite.filters, suite.limit, suite.offset)
    \/ ConnectOk
    \/ Crud(cur) /\ ConnectFail
    \/ ~Crud(cur) /\ QueryConnectFail
    \/ GET
    \/ POST
    \/ PUT
    \/ DELETE
    \/ AirlineList
    \/ ToAirport
    \/ DirectConnections
    \/ HotelSearch
    \/ HotelFilter
    \/ HotelFilterSql
    \/ FtsConnectOk
    \/ FtsConnectFail

SpecAll == InitAll /\ [][NextAll]_vars

\* the request was answered with a failure
Failed == cur.pc = "done" /\ ~(cur.status \in 200..299)

\* the error field of the answer holds the violations of the request body
HoldsViolations ==
    /\ Crud(cur)
    /\ cur.resp.error = Parsed[cur.res][cur.body].issues
    /\ Len(cur.resp.error) >= 1

\* C12: every answer that is not 2xx is an object with a message field; a
\* 400 also has an error field that holds the list of violations, and a 404
\* or 409 also has an error field equal to message.
UniformEnvelope ==
    Failed =>
        /\ "message" \in DOMAIN cur.resp
        /\ cur.status = 400 => ("error" \in DOMAIN cur.resp /\ HoldsViolations)
        /\ cur.status \in { 404, 409 } =>
              ("error" \in DOMAIN cur.resp /\ cur.resp.error = cur.resp.message)

\* C12 (amended): every answer that is not 2xx is 400, 404, 409 or 500 and an
\* object.  It has a message field, except the 400 of the hotel search, which
\* is { error: "name query parameter is required" }.  The 400 of a create or
\* upsert has message "Invalid request body" and an error field with the
\* list of violations; the 400 of the to-airport and direct-connections
\* endpoints has the message alone; a 404 or 409 has an error field equal to
\* message.
FailureEnvelope ==
    Failed =>
        /\ cur.status \in { 400, 404, 409, 500 }
        /\ Crud(cur) =>
              /\ "message" \in DOMAIN cur.resp
              /\ cur.status = 400 =>
                    /\ DOMAIN cur.resp = { "message", "error" }
                    /\ cur.resp.message = "Invalid request body"
                    /\ HoldsViolations
              /\ cur.status \in { 404, 409 } =>
                    /\ DOMAIN cur.resp = { "message", "error" }
                    /\ cur.resp.error = cur.resp.message
        /\ ~Crud(cur) =>
              /\ cur.status \in { 400, 500 }
              /\ cur.status = 500 => "message" \in DOMAIN cur.resp
              /\ cur.status = 400 =>
                    /\ cur.op \in DOMAIN RequiredFilter
                    /\ cur.resp = IF cur.op = "hotelSearch"
                                  THEN [error |-> "name query parameter is required"]
                                  ELSE [message |-> "Destination airport code is required"]

\* a hotel search without a name was refused
SearchRefusedReached ==
    /\ Failed /\ ~Crud(cur)
    /\ cur.op = "hotelSearch" /\ cur.status = 400
    /\ "message" \notin DOMAIN cur.resp


\* the messages of the exceptions a handler can meet
ExceptionTexts == { "cannot connect", "request failed" }

\* C13: on a list / search / filter endpoint a request that fails for an
\* unclassified reason gets the same 500 body whatever the reason (the body
\* it gets when the store cannot be reached), and that body carries no text
\* of the exception.
FailuresIndistinguishable ==
    (QueryDone /\ cur.status = 500) =>
        /\ cur.resp = QueryCatch(cur.op, Failure("cannot connect")).body
        /\ \A f \in DOMAIN cur.resp : cur.resp[f] \notin ExceptionTexts


(***************************************************************************)
(* Properties of the connection module.                                    *)
(***************************************************************************)
\* the clusters couchbase.connect has handed to the callers that awaited it:
\* insertFTSIndexes and the handler of the request at hand
Established ==
    (IF fts.pc = "connected" THEN { fts.attempt } ELSE {})
    \cup (IF cur.pc = "haveDb" /\ cur.attempt # 0 THEN { cur.attempt } ELSE {})

\* C14: whatever the interleaving of the getDatabase() calls of one process,
\* also of calls that begin before the first couchbase.connect has resolved,
\* the connection is established at most once and all callers hold the same
\* cluster.
SingleConnection == Cardinality(Established) <= 1


(***************************************************************************)
(* Properties of every handler.                                            *)
(***************************************************************************)
\* the handler has issued its data operation
Called(r) == IF Crud(r) THEN r.call.method # "none" ELSE r.sent.method # "none"

\* the request passed the handler's validation and required-filter check
Passed(r) ==
    IF Crud(r)
    THEN r.op \in { "GET", "DELETE" } \/ (r.body.kind = "json" /\ Parsed[r.res][r.body].ok)
    ELSE /\ ~MissingFilter(r.op, r.filters)
         /\ QueryEntryError(r.op, r.filters, r.limit, r.offset) = NoError

\* the data operations a request can carry
DataOperation(r) == IF Crud(r) THEN r.call.method ELSE r.sent.method

OneCallState ==
    /\ DataOperation(cur) \in { "none", "get", "insert", "upsert", "remove", "query",
                                "searchQuery" }
    /\ Called(cur) => (cur.pc = "done" /\ Passed(cur))
    /\ (cur.pc = "done" /\ ~Passed(cur)) => (~Called(cur) /\ cur.status \in { 400, 500 })
    /\ (cur.pc = "done" /\ Passed(cur) /\ ~Called(cur)) => (cur.status = 500 /\ cur.attempt # 0)
    /\ (cur.pc = "done" /\ Crud(cur) /\ cur.call.outcome = "Error") => cur.status = 500

\* once the operation is issued, the request stays as it is until another
\* request takes its place, which has issued nothing yet
OneCallStep == Called(cur) => (cur' = cur \/ ~Called(cur'))

\* C15: a handler invocation issues at most one data operation (get, insert,
\* upsert, remove, query or searchQuery): one when the request passes the
\* validation and the required-filter check and the handler gets its
\* database, none when the request fails them; an operation that failed is
\* not issued again and its failure is the 500 of that request's one answer.
OneStoreCall == []OneCallState /\ [][OneCallStep]_vars

\* a store call failed and the request was answered 500
FailedCallReportedReached ==
    /\ cur.pc = "done" /\ Crud(cur)
    /\ cur.op = "POST" /\ cur.call = [method |-> "insert", outcome |-> "Error"]
    /\ cur.status = 500


(***************************************************************************)
(* Properties of two overlapping requests.                                 *)
(***************************************************************************)
\* both requests are answered, were the same operation on the same key, and
\* the store served both calls
BothAnswered(op) ==
    /\ cur.pc = "done" /\ other.pc = "done"
    /\ cur.op = op /\ other.op = op
    /\ cur.key = other.key
    /\ StoreAnswered(cur) /\ StoreAnswered(other)

\* the two requests, in either order
Orders == { << cur, other >>, << other, cur >> }

\* C16: of two overlapping valid creates on a key that holds nothing, one is
\* answered 201 and the other 409 (for calls the store answers), and the
\* key then holds the normal form of the payload of the one answered 201.
FirstWriterWins ==
    (BothAnswered("POST") /\ (~cur.before.present \/ ~other.before.present))
    => \E o \in Orders :
          LET won == o[1]
              lost == o[2]
          IN  /\ won.status = 201 /\ lost.status = 409
              /\ Current = Doc(Parsed[won.res][won.body].data)
              /\ won.resp = Parsed[won.res][won.body].data
              /\ lost.resp = ClaimedConflict[lost.res]

\* two overlapping creates with different payloads on an absent key are
\* both answered
CreateRaceReached ==
    /\ BothAnswered("POST")
    /\ ~cur.before.present
    /\ cur.body # other.body
    /\ cur.status = 201 /\ other.status = 409

\* C17: two overlapping valid upserts on one key are both answered 200 (for
\* calls the store answers), and the key then holds the normal form of the
\* payload of the upsert the store applied last: no mixture of the two
\* payloads and not the document the key held before.
LastWriterWins ==
    BothAnswered("PUT")
    => /\ cur.status = 200 /\ other.status = 200
       /\ \E o \in Orders :
             LET first == o[1]
                 last == o[2]
             IN  /\ first.after = Doc(Parsed[first.res][first.body].data)
                 /\ last.before = first.after
                 /\ last.after = Doc(Parsed[last.res][last.body].data)
                 /\ Current = last.after

\* two overlapping upserts with different payloads replaced an earlier
\* document
UpsertRaceReached ==
    /\ BothAnswered("PUT")
    /\ cur.body # other.body
    /\ other.before = Doc(Earlier(cur.res))
    /\ cur.before = other.after
    /\ Current = Doc(Parsed[cur.res][cur.body].data)


(***************************************************************************)
(* Overlapping [id] requests together with the list / search / filter      *)
(* handlers.                                                               *)
(***************************************************************************)
InitFrame == InitRace \/ InitQuery

NextFrame ==
    \/ Crud(cur) /\ \E op \in { "GET", "DELETE" }, k \in Keys : Arrive(op, k, NoBody)
    \/ Crud(cur) /\ \E op \in { "POST", "PUT" }, k \in Keys, v \in ValidBodies(suite) :
                        Arrive(op, k, Json(v))
    \/ ~Crud(cur) /\ QueryReceive(suite.op, suite.filters, suite.limit, suite.offset)
    \/ Crud(cur) /\ Switch
    \/ ConnectOk
    \/ Crud(cur) /\ ConnectFail
    \/ ~Crud(cur) /\ QueryConnectFail
    \/ GET
    \/ POST
    \/ PUT
    \/ DELETE
    \/ AirlineList
    \/ ToAirport
    \/ DirectConnections
    \/ HotelSearch
    \/ HotelFilter
    \/ HotelFilterSql
    \/ FtsConnectOk
    \/ FtsConnectFail

SpecFrame == InitFrame /\ [][NextFrame]_vars

\* the keys at which collection c differs before and after the step
Changed(c) ==
    { k \in (DOMAIN store[c]) \cup (DOMAIN store'[c]) :
        Stored(store'[c], k) # Stored(store[c], k) }

\* the part of collection coll at key k
Only(coll, k) == [x \in (DOMAIN coll) \cap { k } |-> coll[x]]

\* a step changes the store only as the collection call of a create, upsert
\* or remove, and then only at that request's key in its collection
FrameStep ==
    \A c \in Collections :
        Changed(c) # {}
        => /\ cur.op \in { "POST", "PUT", "DELETE" }
           /\ cur.pc = "haveDb"
           /\ c = cur.res
           /\ Changed(c) = { cur.key }

\* the running handler's collection call is served
Served == Crud(cur) /\ cur.pc = "haveDb" /\ other' = other /\ StoreAnswered(cur')

\* what the call does is what it does on the document at its key alone
AloneStep ==
    Served
    => LET coll == store[cur.res]
           data == ParsedData(cur.op, cur.res, cur.body)
           alone == CollectionCall(HandlerMethod(cur.op), Only(coll, cur.key), cur.key, data)
       IN  /\ cur'.call.outcome = alone.outcome
           /\ cur'.after = Stored(alone.coll, cur.key)
           /\ cur' = Answered([cur EXCEPT !.call = cur'.call, !.before = cur'.before,
                                          !.after = cur'.after],
                        IF alone.outcome = "ok"
                        THEN Returned(cur.op, cur.res, data,
                                 IF cur.op = "GET" THEN Only(coll, cur.key)[cur.key] ELSE data)
                        ELSE Catch(cur.op, cur.res, Thrown(alone.outcome)))

\* C18: a create, upsert or remove on key K of a collection changes at most
\* the document at K in that collection, and what it does and answers is
\* determined by the document at K alone, whatever overlapping requests do
\* to other keys; fetch, list, search and filter requests change nothing.
Frame == [][FrameStep /\ AloneStep]_vars

\* a create and a remove on different keys overlapped and both took effect
OtherKeysUntouchedReached ==
    /\ Crud(cur)
    /\ cur.pc = "done" /\ other.pc = "done"
    /\ cur.key # other.key
    /\ cur.op = "DELETE" /\ cur.status = 202
    /\ other.op = "POST" /\ other.status = 201
    /\ Stored(store[cur.res], other.key) = Doc(Parsed[other.res][other.body].data)
    /\ ~Stored(store[cur.res], cur.key).present


(***************************************************************************)
(* Properties of validation.                                               *)
(***************************************************************************)
IsString(d, f) == f \in DOMAIN d /\ d[f].t = "string"
IsNumber(d, f) == f \in DOMAIN d /\ d[f].t = "number"

\* C19: every airport document the store holds has city, country and faa
\* as strings, and its geo, when it has one, is an object with numeric lat,
\* lon and alt.
StoredAirportInvariant ==
    \A k \in DOMAIN store["airport"] :
        LET d == store["airport"][k]
        IN  /\ d.t = "object"
            /\ \A f \in { "city", "country", "faa" } : IsString(d.v, f)
            /\ "geo" \in DOMAIN d.v
               => /\ d.v["geo"].t = "object"
                  /\ \A g \in { "lat", "lon", "alt" } : IsNumber(d.v["geo"].v, g)

\* an airport was created and then replaced by an upsert, after which a
\* create with a geo that lacks a field was turned away
AirportKeptReached ==
    /\ Done("POST") /\ cur.res = "airport" /\ cur.status = 400
    /\ cur.body.kind = "json" /\ cur.body.value.t = "object"
    /\ "geo" \in DOMAIN cur.body.value.v
    /\ "alt" \notin DOMAIN cur.body.value.v["geo"].v
    /\ prev.op = "PUT" /\ prev.status = 200 /\ prev.before.present
    /\ Current = prev.after

\* the required fields of the request's schema that its body lacks
Missing(r) ==
    { f \in { RequiredNames(SchemaOf(r.res))[i].name :
                i \in 1..Len(RequiredNames(SchemaOf(r.res))) } :
        f \notin DOMAIN r.body.value.v }

\* the request is a create or upsert whose body is an object
WithObject(r) ==
    /\ r.pc = "done" /\ r.op \in { "POST", "PUT" }
    /\ r.body.kind = "json" /\ r.body.value.t = "object"

\* C20: a create or upsert whose body lacks N >= 1 required fields of the
\* schema is answered 400 with an error list that has an entry for the
\* path of each missing field, hence at least N entries with distinct paths.
ValidationComplete ==
    (WithObject(cur) /\ Missing(cur) # {})
    => /\ cur.status = 400
       /\ "error" \in DOMAIN cur.resp
       /\ LET issues == cur.resp.error
              paths == { issues[i].path : i \in 1..Len(issues) }
          IN  /\ \A f \in Missing(cur) : << f >> \in paths
              /\ Cardinality(paths) >= Cardinality(Missing(cur))
              /\ Len(issues) >= Cardinality(Missing(cur))

\* an upsert that lacks two required fields got two violations
TwoMissingReached ==
    /\ WithObject(cur) /\ cur.op = "PUT"
    /\ Cardinality(Missing(cur)) = 2
    /\ cur.status = 400
    /\ Len(cur.resp.error) = 2


(***************************************************************************)
(* The handlers of app/api/airline/[airlineId] (the routes outside v1).    *)
(* GET wraps its body in try / catch; POST and PUT do not, so what their   *)
(* awaits reject with leaves the handler as a rejected promise ("thrown"). *)
(***************************************************************************)
\* req.body is the request's ReadableStream, which the SDK's transcoder
\* serialises with JSON.stringify: an object without own properties
RequestStream == Obj(EmptyObj)

\* the MutationResult of insert / replace, as NextResponse.json renders it
MutationResult == [cas |-> "cas"]

CollectionReplace(coll, k, d) ==
    IF k \in DOMAIN coll
    THEN [outcome |-> "ok", coll |-> WithKey(coll, k, d)]
    ELSE [outcome |-> "DocumentNotFoundError", coll |-> coll]

LegacyMethod(op) ==
    CASE op = "GET" -> "get"
      [] op = "POST" -> "insert"
      [] op = "PUT" -> "replace"

LegacyResult(method, coll, k) ==
    CASE method = "get" -> CollectionGet(coll, k)
      [] method = "insert" -> CollectionInsert(coll, k, RequestStream)
      [] method = "replace" -> CollectionReplace(coll, k, RequestStream)

\* the handler's promise rejects: no response is returned
Rejected(r) == [r EXCEPT !.pc = "thrown"]

\* what an await that rejects leads to
LegacyFailed(r) ==
    IF r.op = "GET"
    THEN Answered(r, Response(500, MessageOnly("An error occurred while fetching airline")))
    ELSE Rejected(r)

LegacyReceive(op, k) ==
    /\ cur.pc \in { "none", "done", "thrown" }
    /\ GetDatabaseCall
    /\ LET r == [NoRequest EXCEPT !.op = op, !.res = "airline", !.key = k]
       IN  cur' = IF GetDatabasePath = "connect"
                  THEN [r EXCEPT !.pc = "connecting", !.attempt = connects + 1]
                  ELSE [r EXCEPT !.pc = "haveDb"]
    /\ UNCHANGED << store, fts, suite, prev, other,
                    searchIndexes, again >>

LegacyConnectFail ==
    /\ cur.pc = "connecting"
    /\ cur' = LegacyFailed(cur)
    /\ UNCHANGED << store, cachedDbConnection, cachedConn, connects, fts, suite, prev,
                    other,
                    searchIndexes, again >>

LegacyCall(op, fails) ==
    /\ cur.pc = "haveDb"
    /\ cur.op = op
    /\ LET coll == store["airline"]
           method == LegacyMethod(op)
           result == IF fails THEN CollectionFailure(coll)
                     ELSE LegacyResult(method, coll, cur.key)
           r == [cur EXCEPT !.call = [method |-> method, outcome |-> result.outcome],
                            !.before = Stored(coll, cur.key),
                            !.after = Stored(result.coll, cur.key)]
       IN  /\ store' = [store EXCEPT !["airline"] = result.coll]
           /\ cur' = IF result.outcome # "ok"
                     THEN LegacyFailed(r)
                     ELSE CASE op = "GET" -> Answered(r, Response(200, coll[cur.key]))
                            [] op = "POST" -> Answered(r, Response(201, MutationResult))
                            [] op = "PUT" -> Answered(r, Response(200, MutationResult))
    /\ UNCHANGED << cachedDbConnection, cachedConn, connects, fts, suite, prev, other,
                    searchIndexes, again >>

LegacyGET == \E fails \in BOOLEAN : LegacyCall("GET", fails)
LegacyPOST == \E fails \in BOOLEAN : LegacyCall("POST", fails)
LegacyPUT == \E fails \in BOOLEAN : LegacyCall("PUT", fails)

InitLegacy ==
    /\ suite = "airline"
    /\ \E ks \in SUBSET Keys :
          store = [c \in Collections |->
                      IF c = suite THEN [k \in ks |-> Earlier(suite)] ELSE EmptyObj]
    /\ cachedDbConnection = 0
    /\ cachedConn = 0
    /\ connects = 1
    /\ fts = [pc |-> "connecting", attempt |-> 1]
    /\ cur = NoRequest
    /\ prev = NoSummary
    /\ other = NoRequest
    /\ searchIndexes = << >>
    /\ again = NoRun

NextLegacy ==
    \/ \E op \in { "GET", "POST", "PUT" }, k \in Keys : LegacyReceive(op, k)
    \/ ConnectOk
    \/ LegacyConnectFail
    \/ LegacyGET
    \/ LegacyPOST
    \/ LegacyPUT
    \/ FtsConnectOk
    \/ FtsConnectFail

SpecLegacy == InitLegacy /\ [][NextLegacy]_vars

\* C21: every invocation of every route handler ends by returning a
\* response; a rejected connection or a failing store call never leaves the
\* handler as an exception.
NoErrorCrossesBoundary == cur.pc # "thrown"


(***************************************************************************)
(* insertFTSIndexes in full: after getDatabase() it reads the index file,  *)
(* parses it and, for each index of the file, lists the indexes of the     *)
(* store and upserts the index when no index of that name is listed.  The  *)
(* function is exported and called when the module is loaded; fts is the   *)
(* invocation that runs, again a second one that waits at an await.        *)
(***************************************************************************)
\* the names of the indexes an index file defines, in the file's order
IndexNames == << "i1", "i2" >>

\* hotel_search_index.json as readFileSync and JSON.parse find it: absent
\* (ENOENT), not readable (another fs error), no JSON, one index object, or
\* an array of index objects
IndexFiles ==
    { [kind |-> k, indexes |-> << >>] : k \in { "ENOENT", "EACCES", "unparsable" } }
    \cup { [kind |-> "object", indexes |-> SubSeq(IndexNames, 1, 1)],
           [kind |-> "array", indexes |-> IndexNames] }

\* the definition the file gives an index, and one the store had before
FileDefinition == "file"
OlderDefinition == "older"

Logged(r, message) == [r EXCEPT !.log = Append(@, message)]

\* the function returns
Return(r) == [r EXCEPT !.pc = "returned"]

\* a function body without the outer try / catch: the error leaves it
CaughtRethrows(r) == [Logged(r, "Error inserting FTS indexes") EXCEPT !.pc = "thrown"]

\* the outer catch: the error is logged and the function returns
Caught(r) == Return(Logged(r, "Error inserting FTS indexes"))

\* the for loop: the next index, or the end of the function
Loop(r) == IF r.todo = << >> THEN Return(r) ELSE [r EXCEPT !.pc = "listing"]

\* insertFTSIndexes is called: getDatabase() up to its first suspension
InsertFTSIndexes ==
    /\ fts.pc = "none"
    /\ GetDatabaseCall
    /\ fts' = CASE GetDatabasePath = "connect" ->
                      [fts EXCEPT !.pc = "connecting", !.attempt = connects + 1]
                [] GetDatabasePath = "cluster" ->
                      [fts EXCEPT !.pc = "connected", !.attempt = cachedConn]
                [] GetDatabasePath = "cached" ->
                      [fts EXCEPT !.pc = "connected", !.attempt = cachedDbConnection]
    /\ UNCHANGED << store, suite, cur, prev, other, searchIndexes, again >>

\* readFileSync and JSON.parse
FtsReadFile ==
    /\ fts.pc = "connected"
    /\ fts' = CASE fts.file.kind = "ENOENT" -> Return(Logged(fts, "FTS Index File not found"))
                [] fts.file.kind = "EACCES" -> Caught(fts)
                [] fts.file.kind = "unparsable" ->
                      Return(Logged(fts, "Error parsing FTS index file"))
                [] OTHER -> Loop([fts EXCEPT !.todo = fts.file.indexes])
    /\ UNCHANGED << store, cachedDbConnection, cachedConn, connects, suite, cur, prev,
                    other, searchIndexes, again >>

\* await cluster.searchIndexes().getAllIndexes() and the test of the name
FtsList(fails) ==
    /\ fts.pc = "listing"
    /\ fts' = IF fails
              THEN Caught(fts)
              ELSE IF Head(fts.todo) \in DOMAIN searchIndexes
              THEN Loop(Logged([fts EXCEPT !.todo = Tail(@)], "Index creation skipped"))
              ELSE [fts EXCEPT !.pc = "upserting"]
    /\ UNCHANGED << store, cachedDbConnection, cachedConn, connects, suite, cur, prev,
                    other, searchIndexes, again >>

\* await cluster.searchIndexes().upsertIndex(index) and its catch.  On a name
\* the store holds by now the call either replaces the definition or is
\* refused with IndexExistsError.
FtsUpsert(outcome) ==
    /\ fts.pc = "upserting"
    /\ outcome = "IndexExistsError" => Head(fts.todo) \in DOMAIN searchIndexes
    /\ searchIndexes' = IF outcome = "ok"
                        THEN WithKey(searchIndexes, Head(fts.todo), FileDefinition)
                        ELSE searchIndexes
    /\ fts' = Loop(Logged([fts EXCEPT !.todo = Tail(@)],
                     CASE outcome = "ok" -> "created successfully"
                       [] outcome = "IndexExistsError" -> "already exists"
                       [] outcome = "Error" -> "Error creating index"))
    /\ UNCHANGED << store, cachedDbConnection, cachedConn, connects, suite, cur, prev,
                    other, again >>

\* the running invocation is suspended (or has returned) and the other runs
SwitchRun ==
    /\ fts # again
    /\ fts' = again
    /\ again' = fts
    /\ UNCHANGED << store, cachedDbConnection, cachedConn, connects, suite, cur, prev,
                    other, searchIndexes >>

InitFts ==
    /\ store = [c \in Collections |-> EmptyObj]
    /\ cachedDbConnection = 0
    /\ cachedConn = 0
    /\ connects = 1
    /\ suite = "airline"
    /\ cur = NoRequest
    /\ prev = NoSummary
    /\ other = NoRequest
    /\ \E held \in SUBSET { IndexNames[i] : i \in 1..Len(IndexNames) } :
          searchIndexes = [n \in held |-> OlderDefinition]
    /\ \E file \in IndexFiles :
          /\ fts = [pc |-> "connecting", attempt |-> 1, file |-> file, todo |-> << >>,
                    log |-> << >>]
          /\ again = [pc |-> "none", attempt |-> 0, file |-> file, todo |-> << >>,
                      log |-> << >>]

NextFts ==
    \/ InsertFTSIndexes
    \/ FtsConnectOk
    \/ FtsConnectFail
    \/ FtsReadFile
    \/ \E fails \in BOOLEAN : FtsList(fails)
    \/ \E outcome \in { "ok", "IndexExistsError", "Error" } : FtsUpsert(outcome)
    \/ SwitchRun

SpecFts == InitFts /\ [][NextFts]_vars


(***************************************************************************)
(* Properties of index provisioning.                                       *)
(***************************************************************************)
\* the running invocation's upsertIndex call gets its answer
UpsertAnswered == fts.pc = "upserting" /\ again' = again /\ fts' # fts

\* C22: however many invocations of insertFTSIndexes run, one after another
\* or overlapping, upsertIndex is never called for a name for which the
\* store already holds an index.
UpsertOnlyAbsent ==
    [][UpsertAnswered => Head(fts.todo) \notin DOMAIN searchIndexes]_vars

\* where an invocation of insertFTSIndexes can stand; "failed" is the return
\* after getDatabase() rejected, and none of them is a rejection
RunStates ==
    { "none", "connecting", "connected", "listing", "upserting", "returned", "failed" }

\* after an upsertIndex call, failed or not, the loop goes on with the
\* remaining indexes of the file
LoopProceeds ==
    UpsertAnswered
    => /\ fts'.todo = Tail(fts.todo)
       /\ fts'.pc = IF Tail(fts.todo) = << >> THEN "returned" ELSE "listing"

\* C30: insertFTSIndexes never throws or rejects, whether the index file is
\* missing, unreadable or unparsable, the connection fails, the listing of
\* the indexes fails or an upsert fails; and after a failed upsert the loop
\* goes on to the remaining indexes.
ProvisioningNeverFails ==
    /\ [](fts.pc \in RunStates /\ again.pc \in RunStates)
    /\ [][LoopProceeds]_vars

\* the upsert of the first index failed and the second index was created
SecondIndexAfterFailureReached ==
    /\ fts.pc = "returned"
    /\ fts.log = << "Error creating index", "created successfully" >>
    /\ IndexNames[2] \in DOMAIN searchIndexes
    /\ IndexNames[1] \notin DOMAIN searchIndexes


(***************************************************************************)
(* The connection module evaluated again in the same process (hot reload): *)
(* its top-level statements run again, with `global` as it was left.       *)
(***************************************************************************)
\* global.couchbase.conn, 0 for none: `global.couchbase` is declared and read
\* by the module, and no statement assigns it
GlobalCouchbaseConn == 0

\* `let cachedDbConnection = null`, `let cached = global.couchbase ??
\* { conn: null }` and the call insertFTSIndexes() up to its first suspension
Reload ==
    /\ fts.pc \in { "returned", "failed" }
    /\ again.pc = "none"
    /\ GlobalCouchbaseConn = 0 => connects < MaxConnects
    /\ cachedConn' = GlobalCouchbaseConn
    /\ cachedDbConnection' = GlobalCouchbaseConn
    /\ connects' = IF GlobalCouchbaseConn = 0 THEN connects + 1 ELSE connects
    /\ fts' = [fts EXCEPT !.pc = IF GlobalCouchbaseConn = 0 THEN "connecting"
                                ELSE "connected",
                          !.attempt = IF GlobalCouchbaseConn = 0 THEN connects + 1
                                     ELSE GlobalCouchbaseConn,
                          !.todo = << >>, !.log = << >>]
    /\ UNCHANGED << store, suite, cur, prev, other, searchIndexes, again >>

NextReload ==
    \/ NextFts
    \/ Reload

SpecReload == InitFts /\ [][NextReload]_vars

(***************************************************************************)
(* Properties of the connection cache.                                     *)
(***************************************************************************)
\* C27: once a connection is cached, no getDatabase() call, later or
\* overlapping, assigns cachedDbConnection or cached.conn again.
HandleReadOnly ==
    [][ /\ cachedDbConnection # 0 => cachedDbConnection' = cachedDbConnection
        /\ cachedConn # 0 => cachedConn' = cachedConn ]_vars

\* C28: once a cluster connection is established and cached, evaluating the
\* connection module again opens no new connection: couchbase.connect is
\* not called again.
ReloadReusesConnection == [][cachedConn # 0 => connects' = connects]_vars

\* the handler's await of couchbase.connect rejects
ConnectRejected == cur.pc = "connecting" /\ cur'.pc = "done"

\* a handler is entered and calls getDatabase()
Entered == cur.pc \in { "none", "done" } /\ cur'.pc \in { "connecting", "haveDb" }

\* the request at hand ended on a rejected connection
ConnectFailure(r) ==
    r.pc = "done" /\ r.attempt # 0 /\ r.call = NoCall

FailedConnectState ==
    /\ ConnectFailure(cur)
       => /\ cur.status = 500
          /\ cachedConn # cur.attempt
          /\ cachedDbConnection # cur.attempt
    /\ fts.pc = "failed" => (cachedConn # fts.attempt /\ cachedDbConnection # fts.attempt)

FailedConnectStep ==
    /\ ConnectRejected
       => /\ cur'.status = 500
          /\ cur'.call = NoCall
          /\ UNCHANGED << cachedConn, cachedDbConnection, connects, store >>
    /\ (Entered /\ cachedConn = 0 /\ cachedDbConnection = 0)
       => /\ cur'.pc = "connecting"
          /\ connects' = connects + 1
          /\ cur'.attempt = connects'

NameMissing ==
    /\ cur.op = "hotelSearch"
    /\ ("name" \notin DOMAIN cur.filters \/ cur.filters.name = "")

\* the hotel search handler, with the database in hand, answers
HotelSearchAnswers ==
    cur.pc = "haveDb" /\ cur.op = "hotelSearch" /\ cur'.pc = "done"

\* the lower-case writing of the filter texts
LowerCased(text) == IF text = "K2" THEN "k2" ELSE text

\* a search for hotels without a name never submits a search query
NamelessNeverSearched == NameMissing => cur.sent = NoSend

\* with the database in hand: without a name the answer is the 400 and
\* nothing is submitted; with a name one prefix query on field name with
\* the lower-cased name goes to index hotel_search
HotelSearchStep ==
    HotelSearchAnswers =>
        IF NameMissing
        THEN /\ cur'.status = 400
             /\ cur'.resp = [error |-> "name query parameter is required"]
             /\ cur'.sent = NoSend
        ELSE /\ cur'.sent.method = "searchQuery"
             /\ cur'.sent.index = "hotel_search"
             /\ cur'.sent.query.kind = "prefix"
             /\ cur'.sent.query.field = "name"
             /\ cur'.sent.query.term = LowerCased(cur.filters.name)
             /\ cur'.sent.query.of = << >>

UpperCaseNameSearchedReached ==
    /\ QueryDone /\ cur.op = "hotelSearch"
    /\ "name" \in DOMAIN cur.filters /\ cur.filters.name = "K2"
    /\ cur.sent.method = "searchQuery" /\ cur.sent.query.term = "k2"
    /\ cur.status = 200 /\ Len(cur.resp) > 0


(***************************************************************************)
(* Properties of the hotel filter handlers.                                *)
(***************************************************************************)
HotelFilterOps == { "hotelFilter", "hotelFilterSql" }

\* the filter fields a request carries with a non-empty text
GivenFilters(filters) == { f \in HotelFields \cap DOMAIN filters : filters[f] # "" }

\* the clauses of the one query a hotel filter submitted, as field :> text,
\* and their number
Clauses(call) ==
    IF call.method = "searchQuery"
    THEN { call.query.of[i].field :> call.query.of[i].term : i \in 1..Len(call.query.of) }
    ELSE { f :> call.parameters.WHERE[f] : f \in DOMAIN call.parameters.WHERE }

ClauseCount(call) ==
    IF call.method = "searchQuery"
    THEN Len(call.query.of)
    ELSE Cardinality(DOMAIN call.parameters.WHERE)

\* the submitted query is one conjunction with exactly one clause for each
\* filter field given and none for any other
OneClausePerFilter ==
    (cur.op \in HotelFilterOps /\ cur.sent.method # "none") =>
        /\ cur.sent.method = "searchQuery" => cur.sent.query.kind = "conjuncts"
        /\ cur.sent.method = "query" => cur.sent.statement = "hotels"
        /\ Clauses(cur.sent) = { f :> cur.filters[f] : f \in GivenFilters(cur.filters) }
        /\ ClauseCount(cur.sent) = Cardinality(GivenFilters(cur.filters))

\* the query selects every hotel the store holds
AlwaysTrue(call) ==
    \A order \in KeyOrders :
        Len(Rows(call, store, order)) = Cardinality(DOMAIN store.hotel)

\* the number of elements limit and offset select out of n
Selected(n, limit, offset) ==
    LET rest == IF offset < n THEN n - offset ELSE 0
    IN  IF limit < rest THEN limit ELSE rest

\* the hotel filter at hand carried none of the six fields and was
\* answered 200
UnfilteredAnswered ==
    /\ QueryDone /\ cur.op \in HotelFilterOps /\ cur.status = 200
    /\ GivenFilters(cur.filters) = {}

\* limit and offset went to the store as natural numbers
NaturalPage(call) ==
    /\ IsInteger(SentLimit(call)) /\ ~SentLimit(call).neg
    /\ IsInteger(SentOffset(call)) /\ ~SentOffset(call).neg

\* C24: a hotel filter builds one conjunctive query with exactly one clause
\* for each of name, title, description, country, city and state that is
\* given and non-empty and none for the others; with none of them given the
\* query selects every hotel, and a 200 answer holds the hotels that limit
\* and offset select.
HotelFilterConstruction ==
    /\ OneClausePerFilter
    /\ UnfilteredAnswered =>
          /\ AlwaysTrue(cur.sent)
          /\ NaturalPage(cur.sent) =>
                Len(cur.resp) = Selected(Cardinality(DOMAIN store.hotel),
                                         SentLimit(cur.sent).int, SentOffset(cur.sent).int)

\* the full-text hotel filter at hand carried none of the six fields and
\* was answered
FullTextUnfiltered ==
    /\ QueryDone /\ cur.op = "hotelFilter"
    /\ GivenFilters(cur.filters) = {}

\* C25: a hotel filter request that carries none of the six filter fields,
\* whatever its limit and offset, is answered 200 with an empty array by the
\* full-text handler; the only other answer is the 500 of a connection or
\* a search that failed.
UnfilteredReturnsNothing ==
    FullTextUnfiltered =>
        \/ cur.status = 200 /\ cur.resp = << >>
        \/ /\ cur.status = 500
           /\ cur.resp.message \in { "cannot connect", "request failed" }

\* an unfiltered request with a limit and an offset got the empty array
\* from a store that holds two hotels
UnfilteredEmptyReached ==
    /\ FullTextUnfiltered /\ cur.filters = NoFilters
    /\ cur.limit = Text(<< "1" >>) /\ cur.offset = Text(<< "1" >>)
    /\ Cardinality(DOMAIN store.hotel) = 2
    /\ cur.sent.method = "searchQuery"
    /\ cur.status = 200 /\ cur.resp = << >>

\* what the two handlers do without filters: the SQL++ statement is WHERE
\* 1=1 and selects every hotel, the full-text conjunction has no conjunct
\* and selects none
UnfilteredByVariant ==
    UnfilteredAnswered =>
        IF cur.op = "hotelFilterSql"
        THEN /\ AlwaysTrue(cur.sent)
             /\ NaturalPage(cur.sent) =>
                   Len(cur.resp) = Selected(Cardinality(DOMAIN store.hotel),
                                            SentLimit(cur.sent).int, SentOffset(cur.sent).int)
        ELSE cur.sent.query.of = << >> /\ cur.resp = << >>


(***************************************************************************)
(* Properties of the airlines-to-airport handler.                          *)
(***************************************************************************)
\* the fields every listed airline has to carry
AirlineFields == { "callsign", "country", "iata", "icao", "name" }

\* the request at hand asked for the airlines to an airport, named one and
\* is answered
ToAirportAnswered ==
    /\ QueryDone /\ cur.op = "toAirport"
    /\ "destinationAirportCode" \in DOMAIN cur.filters
    /\ cur.filters.destinationAirportCode # ""

\* row is the airline stored at key k, and a stored route of that airline
\* ends at the airport
FliesTo(row, k, code) ==
    /\ \A f \in AirlineFields : f \in DOMAIN row.v /\ row.v[f] = store.airline[k].v[f]
    /\ \E r \in DOMAIN store.route :
          /\ store.route[r].v.airlineid = Str(k)
          /\ store.route[r].v.destinationairport = Str(code)

====
